---------------------------- MODULE Spec2Model ----------------------------
(***************************************************************************)
(* The voting server of server.js as a state machine.                      *)
(*                                                                         *)
(* Every socket.io handler is an async function.  Node runs the code       *)
(* between two awaits atomically, so a handler is a task whose steps are   *)
(* its Redis round trips: one step is "the awaited Redis call takes        *)
(* effect, the handler resumes and runs up to its next Redis call".        *)
(* `await prev` in withPartyLock is a suspension point of its own; the     *)
(* resumed function runs straight into its first getParty, so acquiring    *)
(* the lock and that first read are one step.  broadcastToParty contains   *)
(* no await on I/O and is part of the step that calls it.                  *)
(*                                                                         *)
(* Representation: JS null/undefined of a string is Null, a missing party  *)
(* is NoParty, timerEndTime null is 0 (the value JS arithmetic and         *)
(* truthiness give it), moyenne is kept in tenths with NoMoyenne for null, *)
(* strings that the code edits (nom, valeur) are sequences of characters.  *)
(* Time is Date.now() in milliseconds.                                     *)
(***************************************************************************)
EXTENDS Integers, Sequences, FiniteSets, TLC

\* ------------------------------------------------------------------ bounds
MaxTasks == 2          \* handler invocations (timer ticks included) in flight
MaxNow == 1000         \* the clock stops advancing here (ms)
MaxHistorique == 2     \* clients stop closing votes when historique is this long
MaxVotants == 4        \* emetteurs that have voted when the round is closed

\* --------------------------------------------------------------- constants
MaxEmetteurs == 25
NomMaxLen == 20
TimerPeriod == 1000
ClockStep == 500

Null == "null"
NoParty == <<>>
NoMoyenne == -1
NoTimer == -1
Absent == -1
Resolved == 0
NoLock == -2

OdIds == {"r", "a", "b", "c", "d", "e"}
Codes == {"1000", "2000"}
Sockets == {"s1", "s2", "s3", "s4"}
Tasks == 1 .. MaxTasks
LockKeys == Codes \cup {Null}

Digits == <<"0", "1", "2", "3", "4", "5", "6", "7", "8", "9">>
Anonyme == <<"A", "n", "o", "n", "y", "m", "e">>

\* What clients send.
ValeurInputs == { <<"2">>, <<"5">>, <<"7">> }
TimerInputs == {0, 1}

EmptyMap == [x \in {} |-> Null]

\* ----------------------------------------------------------- pure helpers
Max(a, b) == IF a >= b THEN a ELSE b

\* Math.round(num / den), den > 0: the nearest integer, halves towards +infinity.
MathRound(num, den) == (2 * num + den) \div (2 * den)

DigitValue(ch) == (CHOOSE i \in 1 .. 10 : Digits[i] = ch) - 1

IsDigit(ch) == \E i \in 1 .. 10 : Digits[i] = ch

RECURSIVE LeadingDigits(_)
LeadingDigits(s) ==
  IF s = <<>> \/ ~IsDigit(Head(s)) THEN <<>>
  ELSE <<Head(s)>> \o LeadingDigits(Tail(s))

RECURSIVE DigitsValue(_, _)
DigitsValue(ds, acc) ==
  IF ds = <<>> THEN acc ELSE DigitsValue(Tail(ds), 10 * acc + DigitValue(Head(ds)))

RECURSIVE TrimLeft(_)
TrimLeft(s) == IF s # <<>> /\ Head(s) = " " THEN TrimLeft(Tail(s)) ELSE s

RECURSIVE TrimRight(_)
TrimRight(s) ==
  IF s # <<>> /\ s[Len(s)] = " " THEN TrimRight(SubSeq(s, 1, Len(s) - 1)) ELSE s

Trim(s) == TrimRight(TrimLeft(s))

\* parseInt(valeur, 10): leading blanks, an optional sign, then the longest run
\* of digits; NaN when there is none.
ParseInt(valeur) ==
  LET s == TrimLeft(valeur)
      neg == s # <<>> /\ Head(s) = "-"
      body == IF s # <<>> /\ Head(s) \in {"-", "+"} THEN Tail(s) ELSE s
      ds == LeadingDigits(body)
  IN  [nan |-> ds = <<>>,
       n |-> IF neg THEN 0 - DigitsValue(ds, 0) ELSE DigitsValue(ds, 0)]

\* (nom || 'Anonyme').trim().substring(0, 20) || 'Anonyme'
NomClean(nom) ==
  LET given == IF nom = <<>> THEN Anonyme ELSE nom
      t == Trim(given)
      cut == SubSeq(t, 1, IF Len(t) < NomMaxLen THEN Len(t) ELSE NomMaxLen)
  IN  IF cut = <<>> THEN Anonyme ELSE cut

\* party.votes is an object: its entries keep the order in which the keys were
\* first set, and Object.values / Object.entries list them in that order.  It
\* is a sequence of [odId, valeur] with one entry per odId.
VoteKeys(votes) == {votes[i].odId : i \in DOMAIN votes}

HasVote(votes, odId) == odId \in VoteKeys(votes)

VoteOf(votes, odId) == votes[CHOOSE i \in DOMAIN votes : votes[i].odId = odId].valeur

\* a vote that is added to the votes without replacing the voter's earlier one
SetVoteAppend(votes, odId, v) == Append(votes, [odId |-> odId, valeur |-> v])

\* party.votes[odId] = v
SetVote(votes, odId, v) ==
  IF HasVote(votes, odId)
  THEN [i \in DOMAIN votes |->
          IF votes[i].odId = odId THEN [odId |-> odId, valeur |-> v] ELSE votes[i]]
  ELSE Append(votes, [odId |-> odId, valeur |-> v])

RECURSIVE SumVotes(_)
SumVotes(votes) ==
  IF votes = <<>> THEN 0 ELSE Head(votes).valeur + SumVotes(Tail(votes))

\* the average cut to one decimal instead of rounded
MoyenneTronquee(somme, n) == (10 * somme) \div n

\* Math.round((somme / n) * 10) / 10, in tenths.  For every n <= 59 and every
\* somme <= 6 n the double (somme / n) * 10 rounds as the exact quotient does.
Moyenne(somme, n) == MathRound(10 * somme, n)

\* votesDetail of closeVote: votesDetail[emetteur.nom] = valeur for every vote
\* whose odId is an emetteur, in order, so a later voter of the same nom wins.
VotesDetail(party) ==
  LET named == {i \in DOMAIN party.votes :
                  party.votes[i].odId \in DOMAIN party.emetteurs}
      nomOf(i) == party.emetteurs[party.votes[i].odId].nom
      noms == {nomOf(i) : i \in named}
      last(nm) == CHOOSE i \in named :
                    nomOf(i) = nm /\ \A j \in named : nomOf(j) = nm => j <= i
  IN  [nm \in noms |-> party.votes[last(nm)].valeur]

\* ------------------------------------------------------------------ state
VARIABLES
  redisParty,      \* Redis keys party:<code>
  redisOd,         \* Redis keys od:<odId>
  odToSocket,      \* odId -> current socket id
  socketToOd,      \* socket id -> odId
  partyLocks,      \* lock key -> tail promise of the chain
  timerIntervals,  \* code -> next firing time of the armed interval
  rooms,           \* socket -> rooms party:<code> it has joined
  closed,          \* sockets that have disconnected
  now,             \* Date.now()
  tasks,           \* handler invocations in flight
  emitted          \* what the last step emitted, in order

vars == <<redisParty, redisOd, odToSocket, socketToOd, partyLocks,
          timerIntervals, rooms, closed, now, tasks, emitted>>

Idle == [kind |-> "idle", pc |-> "idle", socket |-> Null, odId |-> Null,
         code |-> Null, arg |-> <<>>, party |-> NoParty, prev |-> NoLock,
         branch |-> Null, rest |-> {}]

\* ------------------------------------------------------- store and session
\* getParty(code)
GetParty(code) == IF code = Null THEN NoParty ELSE redisParty[code]

NewParty(code, odId) ==
  [code |-> code, recepteurOdId |-> odId, etat |-> "OUVERTE",
   emetteurs |-> EmptyMap, votes |-> <<>>, moyenne |-> NoMoyenne,
   historique |-> <<>>, timerEndTime |-> 0]

\* party.emetteurs[odId] = { id, nom, connecte: true }
AddEmetteur(party, odId, nom) ==
  [party EXCEPT !.emetteurs =
     [o \in DOMAIN party.emetteurs \cup {odId} |->
        IF o = odId THEN [id |-> odId, nom |-> NomClean(nom), connecte |-> TRUE]
        ELSE party.emetteurs[o]]]

SetConnecte(party, odId, flag) ==
  [party EXCEPT !.emetteurs[odId].connecte = flag]

\* getPartyState sending the votes map along
GetPartyStateWithVotes(party, at) ==
  LET left == IF party.timerEndTime # 0
              THEN Max(0, MathRound(party.timerEndTime - at, 1000)) ELSE 0
  IN  [code |-> party.code,
       etat |-> party.etat,
       nbEmetteurs |-> Cardinality(DOMAIN party.emetteurs),
       moyenne |-> party.moyenne,
       emetteurs |-> [o \in DOMAIN party.emetteurs |->
                        [id |-> o, nom |-> party.emetteurs[o].nom,
                         aVote |-> HasVote(party.votes, o),
                         connecte |-> party.emetteurs[o].connecte]],
       nbVotes |-> Len(party.votes),
       votes |-> party.votes,
       historique |-> party.historique,
       timer |-> left,
       timerEndTime |-> party.timerEndTime,
       tourNumero |-> Len(party.historique)]

\* getPartyState(party) at time `at`
GetPartyState(party, at) ==
  LET left == IF party.timerEndTime # 0
              THEN Max(0, MathRound(party.timerEndTime - at, 1000)) ELSE 0
  IN  [code |-> party.code,
       etat |-> party.etat,
       nbEmetteurs |-> Cardinality(DOMAIN party.emetteurs),
       moyenne |-> party.moyenne,
       emetteurs |-> [o \in DOMAIN party.emetteurs |->
                        [id |-> o, nom |-> party.emetteurs[o].nom,
                         aVote |-> HasVote(party.votes, o),
                         connecte |-> party.emetteurs[o].connecte]],
       nbVotes |-> Len(party.votes),
       historique |-> party.historique,
       timer |-> left,
       timerEndTime |-> party.timerEndTime,
       tourNumero |-> Len(party.historique)]

\* closeVote numbering its entry from historique.length instead of length + 1
CloseVoteNumeroZero(party) ==
  LET n == Len(party.votes)
      closing == [party EXCEPT !.etat = "VOTE_FERME", !.timerEndTime = 0]
  IN  IF n > 0
      THEN LET m == Moyenne(SumVotes(party.votes), n)
           IN  [closing EXCEPT
                  !.moyenne = m,
                  !.historique = Append(party.historique,
                     [numero |-> Len(party.historique), moyenne |-> m,
                      nbVotants |-> n, votes |-> VotesDetail(party)])]
      ELSE [closing EXCEPT !.moyenne = NoMoyenne]

\* closeVote recording an entry also when no vote was cast
CloseVoteAlwaysPush(party) ==
  LET n == Len(party.votes)
      m == IF n > 0 THEN Moyenne(SumVotes(party.votes), n) ELSE NoMoyenne
  IN  [party EXCEPT
         !.etat = "VOTE_FERME", !.timerEndTime = 0, !.moyenne = m,
         !.historique = Append(party.historique,
            [numero |-> Len(party.historique) + 1, moyenne |-> m,
             nbVotants |-> n, votes |-> VotesDetail(party)])]

\* The part of closeVote that runs before its saveParty.
CloseVote(party) ==
  LET n == Len(party.votes)
      closing == [party EXCEPT !.etat = "VOTE_FERME", !.timerEndTime = 0]
  IN  IF n > 0
      THEN LET m == Moyenne(SumVotes(party.votes), n)
           IN  [closing EXCEPT
                  !.moyenne = m,
                  !.historique = Append(party.historique,
                     [numero |-> Len(party.historique) + 1, moyenne |-> m,
                      nbVotants |-> n, votes |-> VotesDetail(party)])]
      ELSE [closing EXCEPT !.moyenne = NoMoyenne]

\* close-doors between its getParty and its saveParty
CloseDoors(party) == [party EXCEPT !.etat = "FERMEE"]

\* an open-vote that keeps the votes and the moyenne of the round before
OpenVoteKeepsVotes(party, timerSeconds, at) ==
  [party EXCEPT !.etat = "VOTE_OUVERT",
                !.timerEndTime = IF timerSeconds > 0 THEN at + timerSeconds * 1000
                                 ELSE 0]

\* open-vote between its getParty and its saveParty; startTimer sets the deadline
OpenVote(party, timerSeconds, at) ==
  [party EXCEPT !.votes = <<>>, !.moyenne = NoMoyenne, !.etat = "VOTE_OUVERT",
                !.timerEndTime = IF timerSeconds > 0 THEN at + timerSeconds * 1000
                                 ELSE 0]

\* vote between its checks and its saveParty
CastVote(party, odId, v) == [party EXCEPT !.votes = SetVote(party.votes, odId, v)]

\* the seconds of the whole timer instead of the seconds left
RemainingOfTimer(party, at) == MathRound(party.timerEndTime, 1000)

\* Math.round((currentParty.timerEndTime - Date.now()) / 1000)
Remaining(party, at) == MathRound(party.timerEndTime - at, 1000)

\* ------------------------------------------------------------------ emits
ToSocket(s, ev, data) == [room |-> FALSE, to |-> s, ev |-> ev, data |-> data]

\* io.to('party:' + code).emit(ev, data), delivered to the sockets in the room
ToRoom(code, ev, data, members) ==
  [room |-> TRUE, to |-> code, ev |-> ev, data |-> data,
   rcpt |-> {s \in Sockets : code \in members[s]}]

BroadcastToParty(party, members) ==
  ToRoom(party.code, "party-state", GetPartyState(party, now), members)

\* ------------------------------------------------------------------ tasks
\* a client event arrives on a socket that is still connected
CanEmit(s) == ~closed[s]

HasFreeTask == \E t \in DOMAIN tasks : tasks[t].kind = "idle"

FreeTask == CHOOSE t \in DOMAIN tasks :
              /\ tasks[t].kind = "idle"
              /\ \A u \in DOMAIN tasks : u < t => tasks[u].kind # "idle"

At(t, kind, pc) == tasks[t].kind = kind /\ tasks[t].pc = pc

\* withPartyLock up to its `await prev`
Enqueue(tk, t, key) ==
  [tk EXCEPT ![t].prev = IF partyLocks[key] = Absent THEN Resolved
                         ELSE partyLocks[key]]

\* a handler that does not wait for the handlers queued before it
NotSerialized(t) == tasks[t].prev # NoLock

\* `await prev` has resolved
Acquired(t) == tasks[t].prev = Resolved

\* the `finally { resolve() }` of withPartyLock, and the end of the handler
ReleaseTasks(tk, t) ==
  [u \in DOMAIN tk |-> IF u = t THEN Idle
                   ELSE IF tk[u].prev = t THEN [tk[u] EXCEPT !.prev = Resolved]
                   ELSE tk[u]]

ReleaseLocks(pl, t) == [k \in LockKeys |-> IF pl[k] = t THEN Resolved ELSE pl[k]]

Release(t) ==
  /\ tasks' = ReleaseTasks(tasks, t)
  /\ partyLocks' = ReleaseLocks(partyLocks, t)

\* a handler that ends outside withPartyLock
Return(t) == tasks' = [tasks EXCEPT ![t] = Idle]

\* registerSocket(socket, odId, code)
RegisteredRooms(s, code) ==
  IF closed[s] THEN rooms ELSE [rooms EXCEPT ![s] = @ \cup {code}]

RegisterSocket(s, odId, code) ==
  /\ odToSocket' = [odToSocket EXCEPT ![odId] = s]
  /\ socketToOd' = [socketToOd EXCEPT ![s] = odId]
  /\ rooms' = RegisteredRooms(s, code)


Spawn(t, kind, pc, s, odId, code, arg) ==
  [tasks EXCEPT ![t] = [Idle EXCEPT !.kind = kind, !.pc = pc, !.socket = s,
                                    !.odId = odId, !.code = code, !.arg = arg]]

\* ------------------------------------------------------------ start-party
\* socket.on('start-party') up to its getUserParty
StartParty(s, clientOdId) ==
  /\ CanEmit(s) /\ HasFreeTask
  /\ tasks' = Spawn(FreeTask, "start", "getUserParty", s, clientOdId, Null, <<>>)
  /\ emitted' = <<>>
  /\ UNCHANGED <<redisParty, redisOd, odToSocket, socketToOd, partyLocks,
                 timerIntervals, rooms, closed, now>>

StartGetUserParty(t) ==
  /\ At(t, "start", "getUserParty")
  /\ LET existingCode == redisOd[tasks[t].odId]
     IN  tasks' = IF existingCode # Null
                  THEN [tasks EXCEPT ![t].pc = "getExisting", ![t].code = existingCode]
                  ELSE [tasks EXCEPT ![t].pc = "generateCode"]
  /\ emitted' = <<>>
  /\ UNCHANGED <<redisParty, redisOd, odToSocket, socketToOd, partyLocks,
                 timerIntervals, rooms, closed, now>>

StartGetExisting(t) ==
  /\ At(t, "start", "getExisting")
  /\ IF GetParty(tasks[t].code) # NoParty
     THEN /\ emitted' = <<ToSocket(tasks[t].socket, "error", "deja dans une partie")>>
          /\ Return(t)
     ELSE /\ emitted' = <<>>
          /\ tasks' = [tasks EXCEPT ![t].pc = "delUser", ![t].code = Null]
  /\ UNCHANGED <<redisParty, redisOd, odToSocket, socketToOd, partyLocks,
                 timerIntervals, rooms, closed, now>>

StartDelUser(t) ==
  /\ At(t, "start", "delUser")
  /\ redisOd' = [redisOd EXCEPT ![tasks[t].odId] = Null]
  /\ tasks' = [tasks EXCEPT ![t].pc = "generateCode"]
  /\ emitted' = <<>>
  /\ UNCHANGED <<redisParty, odToSocket, socketToOd, partyLocks,
                 timerIntervals, rooms, closed, now>>

\* generateCode: the iteration of the loop whose redis.exists answers false
\* (an iteration that draws an existing code changes nothing and draws again)
GenerateCode(t) ==
  /\ At(t, "start", "generateCode")
  /\ \E code \in Codes :
       /\ redisParty[code] = NoParty
       /\ tasks' = [tasks EXCEPT ![t].pc = "saveParty", ![t].code = code]
  /\ emitted' = <<>>
  /\ UNCHANGED <<redisParty, redisOd, odToSocket, socketToOd, partyLocks,
                 timerIntervals, rooms, closed, now>>

StartSaveParty(t) ==
  /\ At(t, "start", "saveParty")
  /\ LET party == NewParty(tasks[t].code, tasks[t].odId)
     IN  /\ redisParty' = [redisParty EXCEPT ![tasks[t].code] = party]
         /\ tasks' = [tasks EXCEPT ![t].pc = "setUserParty", ![t].party = party]
  /\ emitted' = <<>>
  /\ UNCHANGED <<redisOd, odToSocket, socketToOd, partyLocks,
                 timerIntervals, rooms, closed, now>>

StartSetUserParty(t) ==
  /\ At(t, "start", "setUserParty")
  /\ LET tk == tasks[t]
     IN  /\ redisOd' = [redisOd EXCEPT ![tk.odId] = tk.code]
         /\ RegisterSocket(tk.socket, tk.odId, tk.code)
         /\ emitted' = <<ToSocket(tk.socket, "role", "recepteur"),
                         ToSocket(tk.socket, "party-code", tk.code),
                         ToSocket(tk.socket, "assigned-od-id", tk.odId),
                         BroadcastToParty(tk.party, RegisteredRooms(tk.socket, tk.code))>>
  /\ Return(t)
  /\ UNCHANGED <<redisParty, partyLocks, timerIntervals, closed, now>>

\* ------------------------------------------------------------- join-party
\* socket.on('join-party') up to its getUserParty
JoinParty(s, code, nom, clientOdId) ==
  /\ CanEmit(s) /\ HasFreeTask
  /\ tasks' = Spawn(FreeTask, "join", "getUserParty", s, clientOdId, code, nom)
  /\ emitted' = <<>>
  /\ UNCHANGED <<redisParty, redisOd, odToSocket, socketToOd, partyLocks,
                 timerIntervals, rooms, closed, now>>

JoinGetUserParty(t) ==
  /\ At(t, "join", "getUserParty")
  /\ LET existingCode == redisOd[tasks[t].odId]
     IN  IF existingCode # Null /\ existingCode # tasks[t].code
         THEN /\ tasks' = [tasks EXCEPT ![t].pc = "getOther", ![t].branch = existingCode]
              /\ UNCHANGED partyLocks
         ELSE /\ tasks' = Enqueue([tasks EXCEPT ![t].pc = "lockGet"], t, tasks[t].code)
              /\ partyLocks' = [partyLocks EXCEPT ![tasks[t].code] = t]
  /\ emitted' = <<>>
  /\ UNCHANGED <<redisParty, redisOd, odToSocket, socketToOd,
                 timerIntervals, rooms, closed, now>>

JoinGetOther(t) ==
  /\ At(t, "join", "getOther")
  /\ IF GetParty(tasks[t].branch) # NoParty
     THEN /\ emitted' = <<ToSocket(tasks[t].socket, "error", "deja dans une autre partie")>>
          /\ Return(t)
     ELSE /\ emitted' = <<>>
          /\ tasks' = [tasks EXCEPT ![t].pc = "delUser", ![t].branch = Null]
  /\ UNCHANGED <<redisParty, redisOd, odToSocket, socketToOd, partyLocks,
                 timerIntervals, rooms, closed, now>>

JoinDelUser(t) ==
  /\ At(t, "join", "delUser")
  /\ redisOd' = [redisOd EXCEPT ![tasks[t].odId] = Null]
  /\ tasks' = Enqueue([tasks EXCEPT ![t].pc = "lockGet"], t, tasks[t].code)
  /\ partyLocks' = [partyLocks EXCEPT ![tasks[t].code] = t]
  /\ emitted' = <<>>
  /\ UNCHANGED <<redisParty, odToSocket, socketToOd,
                 timerIntervals, rooms, closed, now>>

\* join-party refusing every join once the doors are closed
JoinOutcomeOuverte(party, odId) ==
  IF party = NoParty THEN "invalid"
  ELSE IF party.etat # "OUVERTE" THEN "invalid"
  ELSE IF odId \in DOMAIN party.emetteurs THEN "reco"
  ELSE IF Cardinality(DOMAIN party.emetteurs) >= MaxEmetteurs THEN "full"
  ELSE "new"

\* join-party without the limit of emetteurs
JoinOutcomeNoLimit(party, odId) ==
  IF party = NoParty THEN "invalid"
  ELSE IF odId \in DOMAIN party.emetteurs THEN "reco"
  ELSE "new"

\* join-party that looks at the limit before it looks for the odId
JoinOutcomeLimitFirst(party, odId) ==
  IF party = NoParty THEN "invalid"
  ELSE IF Cardinality(DOMAIN party.emetteurs) >= MaxEmetteurs THEN "full"
  ELSE IF odId \in DOMAIN party.emetteurs THEN "reco"
  ELSE "new"

\* what join-party decides once it holds the party: "invalid" (no party),
\* "reco" (the odId is already an emetteur), "full", or "new"
JoinOutcome(party, odId) ==
  IF party = NoParty THEN "invalid"
  ELSE IF odId \in DOMAIN party.emetteurs THEN "reco"
  ELSE IF Cardinality(DOMAIN party.emetteurs) >= MaxEmetteurs THEN "full"
  ELSE "new"

\* the function join-party passes to withPartyLock, up to its saveParty
JoinLockGet(t) ==
  /\ At(t, "join", "lockGet") /\ Acquired(t)
  /\ LET tk == tasks[t]
         party == GetParty(tk.code)
         outcome == JoinOutcome(party, tk.odId)
     IN  IF outcome = "reco"
         THEN /\ emitted' = <<>>
              /\ tasks' = [tasks EXCEPT ![t].pc = "saveParty", ![t].branch = "reco",
                                        ![t].party = SetConnecte(party, tk.odId, TRUE)]
              /\ UNCHANGED partyLocks
         ELSE IF outcome = "new"
         THEN /\ emitted' = <<>>
              /\ tasks' = [tasks EXCEPT ![t].pc = "saveParty", ![t].branch = "new",
                                        ![t].party = AddEmetteur(party, tk.odId, tk.arg)]
              /\ UNCHANGED partyLocks
         ELSE /\ emitted' = <<ToSocket(tk.socket, "error", outcome)>>
              /\ Release(t)
  /\ UNCHANGED <<redisParty, redisOd, odToSocket, socketToOd,
                 timerIntervals, rooms, closed, now>>

JoinSaveParty(t) ==
  /\ At(t, "join", "saveParty")
  /\ redisParty' = [redisParty EXCEPT ![tasks[t].code] = tasks[t].party]
  /\ tasks' = [tasks EXCEPT ![t].pc = "setUserParty"]
  /\ emitted' = <<>>
  /\ UNCHANGED <<redisOd, odToSocket, socketToOd, partyLocks,
                 timerIntervals, rooms, closed, now>>

\* what an emetteur gets once it is (re)attached: role, odId, its vote if any
Attached(tk) ==
  <<ToSocket(tk.socket, "role", "emetteur"),
    ToSocket(tk.socket, "assigned-od-id", tk.odId)>>
  \o (IF tk.branch = "reco" /\ HasVote(tk.party.votes, tk.odId)
      THEN <<ToSocket(tk.socket, "vote-confirmed", VoteOf(tk.party.votes, tk.odId))>>
      ELSE <<>>)
  \o <<BroadcastToParty(tk.party, RegisteredRooms(tk.socket, tk.code))>>

JoinSetUserParty(t) ==
  /\ At(t, "join", "setUserParty")
  /\ LET tk == tasks[t]
     IN  /\ redisOd' = [redisOd EXCEPT ![tk.odId] = tk.code]
         /\ RegisterSocket(tk.socket, tk.odId, tk.code)
         /\ emitted' = Attached(tk)
  /\ Release(t)
  /\ UNCHANGED <<redisParty, timerIntervals, closed, now>>

\* -------------------------------------------------------- reconnect-party
\* socket.on('reconnect-party') up to `await prev` (odId and code are given)
ReconnectParty(s, odId, code) ==
  /\ CanEmit(s) /\ HasFreeTask
  /\ tasks' = Enqueue(Spawn(FreeTask, "reconnect", "lockGet", s, odId, code, <<>>),
                      FreeTask, code)
  /\ partyLocks' = [partyLocks EXCEPT ![code] = FreeTask]
  /\ emitted' = <<>>
  /\ UNCHANGED <<redisParty, redisOd, odToSocket, socketToOd,
                 timerIntervals, rooms, closed, now>>

\* reconnect-party that registers the socket before it looks at the party
ReconnectLockGetRegistersFirst(t) ==
  /\ At(t, "reconnect", "lockGet") /\ Acquired(t)
  /\ LET tk == tasks[t]
         party == GetParty(tk.code)
     IN  IF party = NoParty
         THEN /\ emitted' = <<ToSocket(tk.socket, "reconnect-failed", Null)>>
              /\ Release(t)
              /\ RegisterSocket(tk.socket, tk.odId, tk.code)
         ELSE IF party.recepteurOdId = tk.odId
         THEN /\ RegisterSocket(tk.socket, tk.odId, tk.code)
              /\ emitted' = <<>>
              /\ tasks' = [tasks EXCEPT ![t].pc = "setUserParty",
                                        ![t].branch = "recepteur", ![t].party = party]
              /\ UNCHANGED partyLocks
         ELSE IF tk.odId \in DOMAIN party.emetteurs
         THEN /\ emitted' = <<>>
              /\ tasks' = [tasks EXCEPT ![t].pc = "saveParty", ![t].branch = "reco",
                                        ![t].party = SetConnecte(party, tk.odId, TRUE)]
              /\ UNCHANGED <<partyLocks, odToSocket, socketToOd, rooms>>
         ELSE /\ emitted' = <<ToSocket(tk.socket, "reconnect-failed", Null)>>
              /\ Release(t)
              /\ RegisterSocket(tk.socket, tk.odId, tk.code)
  /\ UNCHANGED <<redisParty, redisOd, timerIntervals, closed, now>>

\* the function reconnect-party passes to withPartyLock, up to its first
\* Redis write
ReconnectLockGet(t) ==
  /\ At(t, "reconnect", "lockGet") /\ Acquired(t)
  /\ LET tk == tasks[t]
         party == GetParty(tk.code)
     IN  IF party = NoParty
         THEN /\ emitted' = <<ToSocket(tk.socket, "reconnect-failed", Null)>>
              /\ Release(t)
              /\ UNCHANGED <<odToSocket, socketToOd, rooms>>
         ELSE IF party.recepteurOdId = tk.odId
         THEN /\ RegisterSocket(tk.socket, tk.odId, tk.code)
              /\ emitted' = <<>>
              /\ tasks' = [tasks EXCEPT ![t].pc = "setUserParty",
                                        ![t].branch = "recepteur", ![t].party = party]
              /\ UNCHANGED partyLocks
         ELSE IF tk.odId \in DOMAIN party.emetteurs
         THEN /\ emitted' = <<>>
              /\ tasks' = [tasks EXCEPT ![t].pc = "saveParty", ![t].branch = "reco",
                                        ![t].party = SetConnecte(party, tk.odId, TRUE)]
              /\ UNCHANGED <<partyLocks, odToSocket, socketToOd, rooms>>
         ELSE /\ emitted' = <<ToSocket(tk.socket, "reconnect-failed", Null)>>
              /\ Release(t)
              /\ UNCHANGED <<odToSocket, socketToOd, rooms>>
  /\ UNCHANGED <<redisParty, redisOd, timerIntervals, closed, now>>

ReconnectSaveParty(t) ==
  /\ At(t, "reconnect", "saveParty")
  /\ redisParty' = [redisParty EXCEPT ![tasks[t].code] = tasks[t].party]
  /\ tasks' = [tasks EXCEPT ![t].pc = "setUserParty"]
  /\ emitted' = <<>>
  /\ UNCHANGED <<redisOd, odToSocket, socketToOd, partyLocks,
                 timerIntervals, rooms, closed, now>>

ReconnectSetUserParty(t) ==
  /\ At(t, "reconnect", "setUserParty")
  /\ LET tk == tasks[t]
     IN  /\ redisOd' = [redisOd EXCEPT ![tk.odId] = tk.code]
         /\ IF tk.branch = "recepteur"
            THEN /\ emitted' = <<ToSocket(tk.socket, "role", "recepteur"),
                                 ToSocket(tk.socket, "party-code", tk.code),
                                 ToSocket(tk.socket, "assigned-od-id", tk.odId),
                                 BroadcastToParty(tk.party, rooms)>>
                 /\ UNCHANGED <<odToSocket, socketToOd, rooms>>
            ELSE /\ RegisterSocket(tk.socket, tk.odId, tk.code)
                 /\ emitted' = Attached(tk)
  /\ Release(t)
  /\ UNCHANGED <<redisParty, timerIntervals, closed, now>>


\* the stored party of every code is short of MaxHistorique rounds
RoundsLeft ==
  \A c \in Codes :
    IF redisParty[c] = NoParty THEN TRUE
    ELSE Len(redisParty[c].historique) < MaxHistorique

\* ------------------------------------------------------------ close-doors
\* socket.on('close-doors') up to its getUserParty
CloseDoorsEvent(s) ==
  /\ CanEmit(s)
  /\ IF socketToOd[s] = Null
     THEN /\ emitted' = <<ToSocket(s, "error", "Action non autorisee")>>
          /\ UNCHANGED tasks
     ELSE /\ HasFreeTask
          /\ emitted' = <<>>
          /\ tasks' = Spawn(FreeTask, "close-doors", "getUserParty", s, socketToOd[s],
                            Null, <<>>)
  /\ UNCHANGED <<redisParty, redisOd, odToSocket, socketToOd, partyLocks,
                 timerIntervals, rooms, closed, now>>

\* close-doors: getUserParty answers, withPartyLock runs up to `await prev`
CloseDoorsGetUserParty(t) ==
  /\ At(t, "close-doors", "getUserParty")
  /\ LET code == redisOd[tasks[t].odId]
     IN  /\ tasks' = Enqueue([tasks EXCEPT ![t].pc = "lockGet", ![t].code = code], t, code)
         /\ partyLocks' = [partyLocks EXCEPT ![code] = t]
  /\ emitted' = <<>>
  /\ UNCHANGED <<redisParty, redisOd, odToSocket, socketToOd,
                 timerIntervals, rooms, closed, now>>

\* close-doors without the check of the recepteur
CloseDoorsLockGetAnyone(t) ==
  /\ At(t, "close-doors", "lockGet") /\ Acquired(t)
  /\ LET tk == tasks[t]
         party == GetParty(tk.code)
     IN  IF party = NoParty
         THEN /\ emitted' = <<ToSocket(tk.socket, "error", "Action non autorisee")>>
              /\ Release(t)
         ELSE /\ emitted' = <<>>
              /\ tasks' = [tasks EXCEPT ![t].pc = "saveParty",
                                        ![t].party = CloseDoors(party)]
              /\ UNCHANGED partyLocks
  /\ UNCHANGED <<redisParty, redisOd, odToSocket, socketToOd,
                 timerIntervals, rooms, closed, now>>

\* the function close-doors passes to withPartyLock, up to its saveParty
CloseDoorsLockGet(t) ==
  /\ At(t, "close-doors", "lockGet") /\ Acquired(t)
  /\ LET tk == tasks[t]
         party == GetParty(tk.code)
     IN  IF party = NoParty \/ tk.odId # party.recepteurOdId
         THEN /\ emitted' = <<ToSocket(tk.socket, "error", "Action non autorisee")>>
              /\ Release(t)
         ELSE /\ emitted' = <<>>
              /\ tasks' = [tasks EXCEPT ![t].pc = "saveParty",
                                        ![t].party = CloseDoors(party)]
              /\ UNCHANGED partyLocks
  /\ UNCHANGED <<redisParty, redisOd, odToSocket, socketToOd,
                 timerIntervals, rooms, closed, now>>

CloseDoorsSaveParty(t) ==
  /\ At(t, "close-doors", "saveParty")
  /\ LET tk == tasks[t]
     IN  /\ redisParty' = [redisParty EXCEPT ![tk.code] = tk.party]
         /\ emitted' = <<BroadcastToParty(tk.party, rooms)>>
  /\ Release(t)
  /\ UNCHANGED <<redisOd, odToSocket, socketToOd, timerIntervals, rooms, closed, now>>

\* -------------------------------------------------------------- open-vote
\* socket.on('open-vote') up to its getUserParty
OpenVoteEvent(s, timerSeconds) ==
  /\ CanEmit(s)
  /\ IF socketToOd[s] = Null
     THEN /\ emitted' = <<ToSocket(s, "error", "Action non autorisee")>>
          /\ UNCHANGED tasks
     ELSE /\ HasFreeTask /\ RoundsLeft
          /\ emitted' = <<>>
          /\ tasks' = Spawn(FreeTask, "open-vote", "getUserParty", s, socketToOd[s],
                            Null, <<timerSeconds>>)
  /\ UNCHANGED <<redisParty, redisOd, odToSocket, socketToOd, partyLocks,
                 timerIntervals, rooms, closed, now>>

\* open-vote: getUserParty answers, withPartyLock runs up to `await prev`
OpenVoteGetUserParty(t) ==
  /\ At(t, "open-vote", "getUserParty")
  /\ LET code == redisOd[tasks[t].odId]
     IN  /\ tasks' = Enqueue([tasks EXCEPT ![t].pc = "lockGet", ![t].code = code], t, code)
         /\ partyLocks' = [partyLocks EXCEPT ![code] = t]
  /\ emitted' = <<>>
  /\ UNCHANGED <<redisParty, redisOd, odToSocket, socketToOd,
                 timerIntervals, rooms, closed, now>>

\* stopTimer(code); setInterval(..., 1000) of startTimer
StartTimer(code) == [timerIntervals EXCEPT ![code] = now + TimerPeriod]

StopTimer(code) == [timerIntervals EXCEPT ![code] = NoTimer]

\* the function open-vote passes to withPartyLock, up to its saveParty
OpenVoteLockGet(t) ==
  /\ At(t, "open-vote", "lockGet") /\ Acquired(t)
  /\ LET tk == tasks[t]
         party == GetParty(tk.code)
         timerSeconds == tk.arg[1]
     IN  IF party = NoParty \/ tk.odId # party.recepteurOdId
         THEN /\ emitted' = <<ToSocket(tk.socket, "error", "Action non autorisee")>>
              /\ Release(t)
              /\ UNCHANGED timerIntervals
         ELSE /\ emitted' = <<>>
              /\ tasks' = [tasks EXCEPT ![t].pc = "saveParty",
                                        ![t].party = OpenVote(party, timerSeconds, now)]
              /\ timerIntervals' = IF timerSeconds > 0 THEN StartTimer(tk.code)
                                   ELSE timerIntervals
              /\ UNCHANGED partyLocks
  /\ UNCHANGED <<redisParty, redisOd, odToSocket, socketToOd, rooms, closed, now>>

OpenVoteSaveParty(t) ==
  /\ At(t, "open-vote", "saveParty")
  /\ LET tk == tasks[t]
     IN  /\ redisParty' = [redisParty EXCEPT ![tk.code] = tk.party]
         /\ emitted' = <<BroadcastToParty(tk.party, rooms)>>
  /\ Release(t)
  /\ UNCHANGED <<redisOd, odToSocket, socketToOd, timerIntervals, rooms, closed, now>>

\* ------------------------------------------------------------- close-vote
\* socket.on('close-vote') up to its getUserParty
CloseVoteEvent(s) ==
  /\ CanEmit(s)
  /\ IF socketToOd[s] = Null
     THEN /\ emitted' = <<ToSocket(s, "error", "Action non autorisee")>>
          /\ UNCHANGED tasks
     ELSE /\ HasFreeTask /\ RoundsLeft
          /\ emitted' = <<>>
          /\ tasks' = Spawn(FreeTask, "close-vote", "getUserParty", s, socketToOd[s],
                            Null, <<>>)
  /\ UNCHANGED <<redisParty, redisOd, odToSocket, socketToOd, partyLocks,
                 timerIntervals, rooms, closed, now>>

\* close-vote: getUserParty answers, withPartyLock runs up to `await prev`
CloseVoteGetUserParty(t) ==
  /\ At(t, "close-vote", "getUserParty")
  /\ LET code == redisOd[tasks[t].odId]
     IN  /\ tasks' = Enqueue([tasks EXCEPT ![t].pc = "lockGet", ![t].code = code], t, code)
         /\ partyLocks' = [partyLocks EXCEPT ![code] = t]
  /\ emitted' = <<>>
  /\ UNCHANGED <<redisParty, redisOd, odToSocket, socketToOd,
                 timerIntervals, rooms, closed, now>>

\* the function close-vote passes to withPartyLock, up to the saveParty of
\* closeVote
CloseVoteLockGet(t) ==
  /\ At(t, "close-vote", "lockGet") /\ Acquired(t)
  /\ LET tk == tasks[t]
         party == GetParty(tk.code)
     IN  IF party = NoParty \/ tk.odId # party.recepteurOdId
         THEN /\ emitted' = <<ToSocket(tk.socket, "error", "Action non autorisee")>>
              /\ Release(t)
              /\ UNCHANGED timerIntervals
         ELSE /\ emitted' = <<>>
              /\ tasks' = [tasks EXCEPT ![t].pc = "saveParty",
                                        ![t].party = CloseVote(party)]
              /\ timerIntervals' = StopTimer(party.code)
              /\ UNCHANGED partyLocks
  /\ UNCHANGED <<redisParty, redisOd, odToSocket, socketToOd, rooms, closed, now>>

CloseVoteSaveParty(t) ==
  /\ At(t, "close-vote", "saveParty")
  /\ LET tk == tasks[t]
     IN  /\ redisParty' = [redisParty EXCEPT ![tk.code] = tk.party]
         /\ emitted' = <<BroadcastToParty(tk.party, rooms)>>
  /\ Release(t)
  /\ UNCHANGED <<redisOd, odToSocket, socketToOd, timerIntervals, rooms, closed, now>>

\* ------------------------------------------------------------------- vote
\* socket.on('vote') up to its getUserParty
VoteEvent(s, valeur) ==
  /\ CanEmit(s)
  /\ IF socketToOd[s] = Null
     THEN /\ emitted' = <<ToSocket(s, "error", "Aucune partie en cours")>>
          /\ UNCHANGED tasks
     ELSE /\ HasFreeTask
          /\ emitted' = <<>>
          /\ tasks' = Spawn(FreeTask, "vote", "getUserParty", s, socketToOd[s],
                            Null, valeur)
  /\ UNCHANGED <<redisParty, redisOd, odToSocket, socketToOd, partyLocks,
                 timerIntervals, rooms, closed, now>>

\* vote: getUserParty answers, withPartyLock runs up to `await prev`
VoteGetUserParty(t) ==
  /\ At(t, "vote", "getUserParty")
  /\ LET code == redisOd[tasks[t].odId]
     IN  /\ tasks' = Enqueue([tasks EXCEPT ![t].pc = "lockGet", ![t].code = code], t, code)
         /\ partyLocks' = [partyLocks EXCEPT ![code] = t]
  /\ emitted' = <<>>
  /\ UNCHANGED <<redisParty, redisOd, odToSocket, socketToOd,
                 timerIntervals, rooms, closed, now>>

\* vote without the check of party.etat
VoteLockGetAnyState(t) ==
  /\ At(t, "vote", "lockGet") /\ Acquired(t)
  /\ LET tk == tasks[t]
         party == GetParty(tk.code)
         v == ParseInt(tk.arg)
     IN  IF party = NoParty
         THEN /\ emitted' = <<ToSocket(tk.socket, "error", "Aucune partie en cours")>>
              /\ Release(t)
         ELSE IF tk.odId \notin DOMAIN party.emetteurs
         THEN /\ emitted' = <<ToSocket(tk.socket, "error", "pas un emetteur")>>
              /\ Release(t)
         ELSE IF v.nan \/ v.n < 0 \/ v.n > 6
         THEN /\ emitted' = <<ToSocket(tk.socket, "error", "Valeur invalide (0-6)")>>
              /\ Release(t)
         ELSE /\ emitted' = <<>>
              /\ tasks' = [tasks EXCEPT ![t].pc = "saveParty",
                                        ![t].party = CastVote(party, tk.odId, v.n)]
              /\ UNCHANGED partyLocks
  /\ UNCHANGED <<redisParty, redisOd, odToSocket, socketToOd,
                 timerIntervals, rooms, closed, now>>

\* the function vote passes to withPartyLock, up to its saveParty
VoteLockGet(t) ==
  /\ At(t, "vote", "lockGet") /\ Acquired(t)
  /\ LET tk == tasks[t]
         party == GetParty(tk.code)
         v == ParseInt(tk.arg)
     IN  IF party = NoParty
         THEN /\ emitted' = <<ToSocket(tk.socket, "error", "Aucune partie en cours")>>
              /\ Release(t)
         ELSE IF party.etat # "VOTE_OUVERT"
         THEN /\ emitted' = <<ToSocket(tk.socket, "error", "Le vote n'est pas ouvert")>>
              /\ Release(t)
         ELSE IF tk.odId \notin DOMAIN party.emetteurs
         THEN /\ emitted' = <<ToSocket(tk.socket, "error", "pas un emetteur")>>
              /\ Release(t)
         ELSE IF v.nan \/ v.n < 0 \/ v.n > 6
         THEN /\ emitted' = <<ToSocket(tk.socket, "error", "Valeur invalide (0-6)")>>
              /\ Release(t)
         ELSE /\ emitted' = <<>>
              /\ tasks' = [tasks EXCEPT ![t].pc = "saveParty",
                                        ![t].party = CastVote(party, tk.odId, v.n)]
              /\ UNCHANGED partyLocks
  /\ UNCHANGED <<redisParty, redisOd, odToSocket, socketToOd,
                 timerIntervals, rooms, closed, now>>

VoteSaveParty(t) ==
  /\ At(t, "vote", "saveParty")
  /\ LET tk == tasks[t]
     IN  /\ redisParty' = [redisParty EXCEPT ![tk.code] = tk.party]
         /\ emitted' = <<ToSocket(tk.socket, "vote-confirmed", ParseInt(tk.arg).n),
                         BroadcastToParty(tk.party, rooms)>>
  /\ Release(t)
  /\ UNCHANGED <<redisOd, odToSocket, socketToOd, timerIntervals, rooms, closed, now>>

\* -------------------------------------------------------------- end-party
\* socket.on('end-party') up to its getUserParty
EndPartyEvent(s) ==
  /\ CanEmit(s)
  /\ IF socketToOd[s] = Null
     THEN /\ emitted' = <<ToSocket(s, "error", "Action non autorisee")>>
          /\ UNCHANGED tasks
     ELSE /\ HasFreeTask
          /\ emitted' = <<>>
          /\ tasks' = Spawn(FreeTask, "end-party", "getUserParty", s, socketToOd[s],
                            Null, <<>>)
  /\ UNCHANGED <<redisParty, redisOd, odToSocket, socketToOd, partyLocks,
                 timerIntervals, rooms, closed, now>>

EndPartyGetUserParty(t) ==
  /\ At(t, "end-party", "getUserParty")
  /\ tasks' = [tasks EXCEPT ![t].pc = "getParty", ![t].code = redisOd[tasks[t].odId]]
  /\ emitted' = <<>>
  /\ UNCHANGED <<redisParty, redisOd, odToSocket, socketToOd, partyLocks,
                 timerIntervals, rooms, closed, now>>

\* end-party: getParty answers; the check, party-ended, and the loop over the
\* emetteurs up to its first deleteUserParty
EndPartyGetParty(t) ==
  /\ At(t, "end-party", "getParty")
  /\ LET tk == tasks[t]
         party == GetParty(tk.code)
     IN  IF party = NoParty \/ tk.odId # party.recepteurOdId
         THEN /\ emitted' = <<ToSocket(tk.socket, "error", "Action non autorisee")>>
              /\ Return(t)
         ELSE /\ emitted' = <<ToRoom(tk.code, "party-ended", Null, rooms)>>
              /\ tasks' = [tasks EXCEPT
                             ![t].party = party,
                             ![t].rest = DOMAIN party.emetteurs,
                             ![t].pc = IF DOMAIN party.emetteurs = {} THEN "delSelf"
                                       ELSE "delEmetteur"]
  /\ UNCHANGED <<redisParty, redisOd, odToSocket, socketToOd, partyLocks,
                 timerIntervals, rooms, closed, now>>

\* one turn of the loop: deleteUserParty(emOdId), then its socket leaves the maps
EndPartyDelEmetteur(t) ==
  /\ At(t, "end-party", "delEmetteur")
  /\ \E emOdId \in tasks[t].rest :
       LET emSocketId == odToSocket[emOdId]
           left == tasks[t].rest \ {emOdId}
       IN  /\ redisOd' = [redisOd EXCEPT ![emOdId] = Null]
           /\ socketToOd' = IF emSocketId # Null
                            THEN [socketToOd EXCEPT ![emSocketId] = Null]
                            ELSE socketToOd
           /\ odToSocket' = [odToSocket EXCEPT ![emOdId] = Null]
           /\ tasks' = [tasks EXCEPT ![t].rest = left,
                                     ![t].pc = IF left = {} THEN "delSelf"
                                               ELSE "delEmetteur"]
  /\ emitted' = <<>>
  /\ UNCHANGED <<redisParty, partyLocks, timerIntervals, rooms, closed, now>>

\* deleteUserParty(odId) answers; deleteParty runs up to its redis.del
EndPartyDelSelf(t) ==
  /\ At(t, "end-party", "delSelf")
  /\ redisOd' = [redisOd EXCEPT ![tasks[t].odId] = Null]
  /\ timerIntervals' = StopTimer(tasks[t].code)
  /\ tasks' = [tasks EXCEPT ![t].pc = "delParty"]
  /\ emitted' = <<>>
  /\ UNCHANGED <<redisParty, odToSocket, socketToOd, partyLocks, rooms, closed, now>>

\* redis.del answers; partyLocks.delete(code); the recepteur leaves the maps
EndPartyDelParty(t) ==
  /\ At(t, "end-party", "delParty")
  /\ LET tk == tasks[t]
     IN  /\ redisParty' = [redisParty EXCEPT ![tk.code] = NoParty]
         /\ partyLocks' = [partyLocks EXCEPT ![tk.code] = Absent]
         /\ socketToOd' = [socketToOd EXCEPT ![tk.socket] = Null]
         /\ odToSocket' = [odToSocket EXCEPT ![tk.odId] = Null]
  /\ Return(t)
  /\ emitted' = <<>>
  /\ UNCHANGED <<redisOd, timerIntervals, rooms, closed, now>>

\* ------------------------------------------------------------- disconnect
\* unregisterSocket(socket): the maps after the socket has left them
UnregisterOdToSocket(s) ==
  LET odId == socketToOd[s]
  IN  IF odId # Null /\ odToSocket[odId] = s
      THEN [odToSocket EXCEPT ![odId] = Null] ELSE odToSocket

\* the transport drops: the socket leaves its rooms; socket.on('disconnect')
\* runs up to its getUserParty
Disconnect(s) ==
  /\ ~closed[s]
  /\ closed' = [closed EXCEPT ![s] = TRUE]
  /\ rooms' = [rooms EXCEPT ![s] = {}]
  /\ odToSocket' = UnregisterOdToSocket(s)
  /\ socketToOd' = [socketToOd EXCEPT ![s] = Null]
  /\ IF socketToOd[s] = Null
     THEN UNCHANGED tasks
     ELSE /\ HasFreeTask
          /\ tasks' = Spawn(FreeTask, "disconnect", "getUserParty", s, socketToOd[s],
                            Null, <<>>)
  /\ emitted' = <<>>
  /\ UNCHANGED <<redisParty, redisOd, partyLocks, timerIntervals, now>>

DisconnectGetUserParty(t) ==
  /\ At(t, "disconnect", "getUserParty")
  /\ LET code == redisOd[tasks[t].odId]
     IN  IF code = Null THEN Return(t)
         ELSE tasks' = [tasks EXCEPT ![t].pc = "getParty", ![t].code = code]
  /\ emitted' = <<>>
  /\ UNCHANGED <<redisParty, redisOd, odToSocket, socketToOd, partyLocks,
                 timerIntervals, rooms, closed, now>>

\* a disconnect that ends the party when the socket of its recepteur drops
DisconnectGetPartyEnds(t) ==
  /\ At(t, "disconnect", "getParty")
  /\ LET tk == tasks[t]
         party == GetParty(tk.code)
     IN  IF party = NoParty
         THEN /\ tasks' = [tasks EXCEPT ![t].pc = "delUser"]
              /\ UNCHANGED <<partyLocks, redisParty, timerIntervals>>
         ELSE IF tk.odId = party.recepteurOdId
         THEN /\ redisParty' = [redisParty EXCEPT ![tk.code] = NoParty]
              /\ timerIntervals' = StopTimer(tk.code)
              /\ Return(t) /\ UNCHANGED partyLocks
         ELSE IF tk.odId \in DOMAIN party.emetteurs
         THEN /\ tasks' = Enqueue([tasks EXCEPT ![t].pc = "lockGet"], t, tk.code)
              /\ partyLocks' = [partyLocks EXCEPT ![tk.code] = t]
              /\ UNCHANGED <<redisParty, timerIntervals>>
         ELSE Return(t) /\ UNCHANGED <<partyLocks, redisParty, timerIntervals>>
  /\ emitted' = <<>>
  /\ UNCHANGED <<redisOd, odToSocket, socketToOd, rooms, closed, now>>

\* disconnect: the unlocked getParty answers
DisconnectGetParty(t) ==
  /\ At(t, "disconnect", "getParty")
  /\ LET tk == tasks[t]
         party == GetParty(tk.code)
     IN  IF party = NoParty
         THEN /\ tasks' = [tasks EXCEPT ![t].pc = "delUser"]
              /\ UNCHANGED partyLocks
         ELSE IF tk.odId = party.recepteurOdId
         THEN Return(t) /\ UNCHANGED partyLocks
         ELSE IF tk.odId \in DOMAIN party.emetteurs
         THEN /\ tasks' = Enqueue([tasks EXCEPT ![t].pc = "lockGet"], t, tk.code)
              /\ partyLocks' = [partyLocks EXCEPT ![tk.code] = t]
         ELSE Return(t) /\ UNCHANGED partyLocks
  /\ emitted' = <<>>
  /\ UNCHANGED <<redisParty, redisOd, odToSocket, socketToOd,
                 timerIntervals, rooms, closed, now>>

DisconnectDelUser(t) ==
  /\ At(t, "disconnect", "delUser")
  /\ redisOd' = [redisOd EXCEPT ![tasks[t].odId] = Null]
  /\ Return(t)
  /\ emitted' = <<>>
  /\ UNCHANGED <<redisParty, odToSocket, socketToOd, partyLocks,
                 timerIntervals, rooms, closed, now>>

\* a disconnect that forgets the emetteur and its vote
RemoveEmetteur(party, odId) ==
  [party EXCEPT
     !.emetteurs = [o \in DOMAIN party.emetteurs \ {odId} |-> party.emetteurs[o]],
     !.votes = SelectSeq(party.votes, LAMBDA v : v.odId # odId)]

\* a disconnect that forgets the emetteur but keeps its vote
ForgetEmetteur(party, odId) ==
  [party EXCEPT
     !.emetteurs = [o \in DOMAIN party.emetteurs \ {odId} |-> party.emetteurs[o]]]

\* freshParty.emetteurs[odId].connecte = false
MarkDisconnected(party, odId) == SetConnecte(party, odId, FALSE)

\* the function disconnect passes to withPartyLock, up to its saveParty
DisconnectLockGet(t) ==
  /\ At(t, "disconnect", "lockGet") /\ Acquired(t)
  /\ LET tk == tasks[t]
         freshParty == GetParty(tk.code)
     IN  IF freshParty # NoParty /\ tk.odId \in DOMAIN freshParty.emetteurs
         THEN /\ tasks' = [tasks EXCEPT ![t].pc = "saveParty",
                                        ![t].party = MarkDisconnected(freshParty, tk.odId)]
              /\ UNCHANGED partyLocks
         ELSE Release(t)
  /\ emitted' = <<>>
  /\ UNCHANGED <<redisParty, redisOd, odToSocket, socketToOd,
                 timerIntervals, rooms, closed, now>>

DisconnectSaveParty(t) ==
  /\ At(t, "disconnect", "saveParty")
  /\ LET tk == tasks[t]
     IN  /\ redisParty' = [redisParty EXCEPT ![tk.code] = tk.party]
         /\ emitted' = <<BroadcastToParty(tk.party, rooms)>>
  /\ Release(t)
  /\ UNCHANGED <<redisOd, odToSocket, socketToOd, timerIntervals, rooms, closed, now>>

\* ------------------------------------------------------------------ timer
\* the interval of startTimer fires: its callback runs up to `await prev`
TimerFire(code) ==
  /\ timerIntervals[code] # NoTimer /\ now >= timerIntervals[code]
  /\ HasFreeTask
  /\ timerIntervals' = [timerIntervals EXCEPT ![code] = @ + TimerPeriod]
  /\ tasks' = Enqueue(Spawn(FreeTask, "tick", "lockGet", Null, Null, code, <<>>),
                      FreeTask, code)
  /\ partyLocks' = [partyLocks EXCEPT ![code] = FreeTask]
  /\ emitted' = <<>>
  /\ UNCHANGED <<redisParty, redisOd, odToSocket, socketToOd, rooms, closed, now>>

\* the function the callback passes to withPartyLock, up to the saveParty of
\* closeVote
TimerLockGet(t) ==
  /\ At(t, "tick", "lockGet") /\ Acquired(t)
  /\ LET tk == tasks[t]
         currentParty == GetParty(tk.code)
     IN  IF currentParty = NoParty
         THEN /\ timerIntervals' = StopTimer(tk.code)
              /\ Release(t)
         ELSE IF Remaining(currentParty, now) <= 0
         THEN /\ timerIntervals' = StopTimer(tk.code)
              /\ tasks' = [tasks EXCEPT ![t].pc = "saveParty",
                                        ![t].party = CloseVote(currentParty)]
              /\ UNCHANGED partyLocks
         ELSE /\ Release(t)
              /\ UNCHANGED timerIntervals
  /\ emitted' = <<>>
  /\ UNCHANGED <<redisParty, redisOd, odToSocket, socketToOd, rooms, closed, now>>

\* a tick that broadcasts the closed round without storing it
TimerBroadcastOnly(t) ==
  /\ At(t, "tick", "saveParty")
  /\ emitted' = <<BroadcastToParty(tasks[t].party, rooms)>>
  /\ Release(t)
  /\ UNCHANGED <<redisParty, redisOd, odToSocket, socketToOd, timerIntervals,
                 rooms, closed, now>>

TimerSaveParty(t) ==
  /\ At(t, "tick", "saveParty")
  /\ LET tk == tasks[t]
     IN  /\ redisParty' = [redisParty EXCEPT ![tk.code] = tk.party]
         /\ emitted' = <<BroadcastToParty(tk.party, rooms)>>
  /\ Release(t)
  /\ UNCHANGED <<redisOd, odToSocket, socketToOd, timerIntervals, rooms, closed, now>>

\* Date.now() moves on.  Only a deadline or an armed interval reads the clock,
\* so time is let pass only while there is one.
ClockRuns ==
  \/ \E c \in Codes : timerIntervals[c] # NoTimer
  \/ \E c \in Codes : redisParty[c] # NoParty /\ redisParty[c].timerEndTime # 0
  \/ \E t \in Tasks : tasks[t].party # NoParty /\ tasks[t].party.timerEndTime # 0

Advance(ms) ==
  /\ ClockRuns /\ now < MaxNow
  /\ now' = now + ms
  /\ emitted' = <<>>
  /\ UNCHANGED <<redisParty, redisOd, odToSocket, socketToOd, partyLocks,
                 timerIntervals, rooms, closed, tasks>>

\* ---------------------------------------------------------- store failure
\* a failing function that leaves withPartyLock without resolving its promise
StoreFailsHoldingLock(t) ==
  /\ tasks[t].kind \in {"vote", "close-vote", "tick"} /\ Acquired(t)
  /\ tasks' = [tasks EXCEPT ![t] = Idle]
  /\ emitted' = <<>>
  /\ UNCHANGED <<redisParty, redisOd, odToSocket, socketToOd, partyLocks,
                 timerIntervals, rooms, closed, now>>

\* The store call that the function passed to withPartyLock awaits (getParty
\* or saveParty) throws: `finally` resolves the promise of the lock, then the
\* catch of the handler answers 'Erreur serveur'; the catch of the timer
\* callback stops the timer.
StoreFails(t) ==
  /\ tasks[t].kind \in {"vote", "close-vote", "tick"} /\ Acquired(t)
  /\ Release(t)
  /\ IF tasks[t].kind = "tick"
     THEN /\ emitted' = <<>>
          /\ timerIntervals' = StopTimer(tasks[t].code)
     ELSE /\ emitted' = <<ToSocket(tasks[t].socket, "error", "Erreur serveur")>>
          /\ UNCHANGED timerIntervals
  /\ UNCHANGED <<redisParty, redisOd, odToSocket, socketToOd, rooms, closed, now>>

\* -------------------------------------------------------------- scenarios
\* A settled server: `party` is stored under its code, every member is bound
\* to the code, the sockets of `conns` (socket -> odId) are registered and in
\* the room, no handler is in flight and the lock chain of the code has been
\* used and is free.  `interval` is the armed interval of the code or NoTimer.
Settled(party, conns, interval) ==
  /\ redisParty = [c \in Codes |-> IF c = party.code THEN party ELSE NoParty]
  /\ redisOd = [o \in OdIds |->
                  IF o = party.recepteurOdId \/ o \in DOMAIN party.emetteurs
                  THEN party.code ELSE Null]
  /\ odToSocket = [o \in OdIds |->
                     IF \E s \in DOMAIN conns : conns[s] = o
                     THEN CHOOSE s \in DOMAIN conns : conns[s] = o ELSE Null]
  /\ socketToOd = [s \in Sockets |-> IF s \in DOMAIN conns THEN conns[s] ELSE Null]
  /\ partyLocks = [k \in LockKeys |-> IF k = party.code THEN Resolved ELSE Absent]
  /\ timerIntervals = [c \in Codes |-> IF c = party.code THEN interval ELSE NoTimer]
  /\ rooms = [s \in Sockets |-> IF s \in DOMAIN conns THEN {party.code} ELSE {}]
  /\ closed = [s \in Sockets |-> FALSE]
  /\ now = 0
  /\ tasks = [t \in Tasks |-> Idle]
  /\ emitted = <<>>

\* The server after construction: nothing stored, no socket registered.
Fresh ==
  /\ redisParty = [c \in Codes |-> NoParty]
  /\ redisOd = [o \in OdIds |-> Null]
  /\ odToSocket = [o \in OdIds |-> Null]
  /\ socketToOd = [s \in Sockets |-> Null]
  /\ partyLocks = [k \in LockKeys |-> Absent]
  /\ timerIntervals = [c \in Codes |-> NoTimer]
  /\ rooms = [s \in Sockets |-> {}]
  /\ closed = [s \in Sockets |-> FALSE]
  /\ now = 0
  /\ tasks = [t \in Tasks |-> Idle]
  /\ emitted = <<>>

\* sockets s1..s4 registered for the odIds in `ods`, in order
Conns(ods) ==
  LET sock == <<"s1", "s2", "s3", "s4">>
  IN  [s \in {sock[i] : i \in DOMAIN ods} |->
         ods[CHOOSE i \in DOMAIN ods : sock[i] = s]]

NomA == <<"A">>
NomB == <<"B">>
NomC == <<"C">>

\* ------------------------------------------------------------------- spec
\* One session from the moment its recepteur "r" has created it on socket s1:
\* "a" joins on s2 and comes back on s3, sockets drop, the recepteur drives
\* the doors and rounds without a timer.
Init == Settled(NewParty("1000", "r"), Conns(<<"r">>), NoTimer)

Next ==
  \/ JoinParty("s2", "1000", NomA, "a")
  \/ ReconnectParty("s3", "a", "1000")
  \/ CloseDoorsEvent("s1")
  \/ OpenVoteEvent("s1", 0)
  \/ CloseVoteEvent("s1")
  \/ \E s \in {"s2", "s3"} : VoteEvent(s, <<"2">>)
  \/ \E s \in {"s1", "s2", "s3"} : Disconnect(s)
  \/ \E t \in Tasks :
       \/ JoinGetUserParty(t) \/ JoinLockGet(t) \/ JoinSaveParty(t)
       \/ JoinSetUserParty(t)
       \/ ReconnectLockGet(t) \/ ReconnectSaveParty(t) \/ ReconnectSetUserParty(t)
       \/ CloseDoorsGetUserParty(t) \/ CloseDoorsLockGet(t) \/ CloseDoorsSaveParty(t)
       \/ OpenVoteGetUserParty(t) \/ OpenVoteLockGet(t) \/ OpenVoteSaveParty(t)
       \/ CloseVoteGetUserParty(t) \/ CloseVoteLockGet(t) \/ CloseVoteSaveParty(t)
       \/ VoteGetUserParty(t) \/ VoteLockGet(t) \/ VoteSaveParty(t)
       \/ DisconnectGetUserParty(t) \/ DisconnectGetParty(t)
       \/ DisconnectLockGet(t) \/ DisconnectSaveParty(t)

Spec == Init /\ [][Next]_vars

\* The rounds of a session that "a" has joined: the recepteur closes the
\* doors, opens votes with and without a timer and closes them, "a" votes,
\* the interval fires as time passes.
InitRound ==
  Settled(AddEmetteur(NewParty("1000", "r"), "a", NomA), Conns(<<"r", "a">>), NoTimer)

NextRound ==
  \/ CloseDoorsEvent("s1")
  \/ \E ts \in TimerInputs : OpenVoteEvent("s1", ts)
  \/ CloseVoteEvent("s1")
  \/ \E v \in ValeurInputs : VoteEvent("s2", v)
  \/ \E c \in Codes : TimerFire(c)
  \/ Advance(ClockStep)
  \/ \E t \in Tasks :
       \/ CloseDoorsGetUserParty(t) \/ CloseDoorsLockGet(t) \/ CloseDoorsSaveParty(t)
       \/ OpenVoteGetUserParty(t) \/ OpenVoteLockGet(t) \/ OpenVoteSaveParty(t)
       \/ CloseVoteGetUserParty(t) \/ CloseVoteLockGet(t) \/ CloseVoteSaveParty(t)
       \/ VoteGetUserParty(t) \/ VoteLockGet(t) \/ VoteSaveParty(t)
       \/ TimerLockGet(t) \/ TimerSaveParty(t)

SpecRound == InitRound /\ [][NextRound]_vars

\* One open round with a timer: "a" and "b" vote at the same time while "c"
\* joins, "a" drops and comes back, and the interval fires.
InitVote ==
  Settled(OpenVote(CloseDoors(AddEmetteur(AddEmetteur(NewParty("1000", "r"),
                                                      "a", NomA), "b", NomB)),
                   1, 0),
          Conns(<<"r", "a", "b">>), TimerPeriod)

NextVote ==
  \/ \E s \in {"s2", "s3"}, v \in ValeurInputs : VoteEvent(s, v)
  \/ JoinParty("s4", "1000", NomC, "c")
  \/ ReconnectParty("s4", "a", "1000")
  \/ Disconnect("s2")
  \/ \E c \in Codes : TimerFire(c)
  \/ Advance(ClockStep)
  \/ \E t \in Tasks :
       \/ VoteGetUserParty(t) \/ VoteLockGet(t) \/ VoteSaveParty(t)
       \/ JoinGetUserParty(t) \/ JoinLockGet(t) \/ JoinSaveParty(t)
       \/ JoinSetUserParty(t)
       \/ ReconnectLockGet(t) \/ ReconnectSaveParty(t) \/ ReconnectSetUserParty(t)
       \/ DisconnectGetUserParty(t) \/ DisconnectGetParty(t)
       \/ DisconnectLockGet(t) \/ DisconnectSaveParty(t)
       \/ TimerLockGet(t) \/ TimerSaveParty(t)

SpecVote == InitVote /\ [][NextVote]_vars

\* A session whose doors are closed and whose first round, played by "b"
\* alone, is over: "a" joins for the first time on s3 and the recepteur plays
\* another round.
InitLate ==
  Settled(CloseVote(CastVote(OpenVote(CloseDoors(AddEmetteur(NewParty("1000", "r"),
                                                             "b", NomB)), 0, 0),
                             "b", 5)),
          Conns(<<"r", "b">>), NoTimer)

NextLate ==
  \/ JoinParty("s3", "1000", NomA, "a")
  \/ OpenVoteEvent("s1", 0)
  \/ CloseVoteEvent("s1")
  \/ \E s \in {"s2", "s3"}, v \in {<<"2">>, <<"7">>} : VoteEvent(s, v)
  \/ \E t \in Tasks :
       \/ JoinGetUserParty(t) \/ JoinLockGet(t) \/ JoinSaveParty(t)
       \/ JoinSetUserParty(t)
       \/ OpenVoteGetUserParty(t) \/ OpenVoteLockGet(t) \/ OpenVoteSaveParty(t)
       \/ CloseVoteGetUserParty(t) \/ CloseVoteLockGet(t) \/ CloseVoteSaveParty(t)
       \/ VoteGetUserParty(t) \/ VoteLockGet(t) \/ VoteSaveParty(t)

SpecLate == InitLate /\ [][NextLate]_vars

\* From the empty server: "r" starts a party on s1, its client sends
\* join-party with its own odId and its own code, then comes back on s2 with
\* reconnect-party.
NextOwnJoin ==
  \/ StartParty("s1", "r")
  \/ JoinParty("s1", "1000", NomA, "r")
  \/ ReconnectParty("s2", "r", "1000")
  \/ \E s \in {"s1", "s2"} : OpenVoteEvent(s, 0)
  \/ \E s \in {"s1", "s2"} : VoteEvent(s, <<"5">>)
  \/ \E t \in Tasks :
       \/ StartGetUserParty(t) \/ StartGetExisting(t) \/ GenerateCode(t)
       \/ StartSaveParty(t) \/ StartSetUserParty(t)
       \/ JoinGetUserParty(t) \/ JoinLockGet(t) \/ JoinSaveParty(t)
       \/ JoinSetUserParty(t)
       \/ ReconnectLockGet(t) \/ ReconnectSetUserParty(t)
       \/ OpenVoteGetUserParty(t) \/ OpenVoteLockGet(t) \/ OpenVoteSaveParty(t)
       \/ VoteGetUserParty(t) \/ VoteLockGet(t) \/ VoteSaveParty(t)

SpecOwnJoin == Fresh /\ [][NextOwnJoin]_vars

\* The life of a session whose doors are closed: the socket of the recepteur
\* drops, the recepteur comes back on s3, opens rounds with a timer, closes
\* them and ends the party.
InitLife ==
  Settled(CloseDoors(AddEmetteur(NewParty("1000", "r"), "a", NomA)),
          Conns(<<"r", "a">>), NoTimer)

NextLife ==
  \/ Disconnect("s1")
  \/ ReconnectParty("s3", "r", "1000")
  \/ \E s \in {"s1", "s3"} : OpenVoteEvent(s, 1)
  \/ CloseVoteEvent("s3")
  \/ EndPartyEvent("s3")
  \/ \E c \in Codes : TimerFire(c)
  \/ Advance(ClockStep)
  \/ \E t \in Tasks :
       \/ DisconnectGetUserParty(t) \/ DisconnectGetParty(t) \/ DisconnectDelUser(t)
       \/ ReconnectLockGet(t) \/ ReconnectSetUserParty(t)
       \/ OpenVoteGetUserParty(t) \/ OpenVoteLockGet(t) \/ OpenVoteSaveParty(t)
       \/ CloseVoteGetUserParty(t) \/ CloseVoteLockGet(t) \/ CloseVoteSaveParty(t)
       \/ EndPartyGetUserParty(t) \/ EndPartyGetParty(t) \/ EndPartyDelEmetteur(t)
       \/ EndPartyDelSelf(t) \/ EndPartyDelParty(t)
       \/ TimerLockGet(t) \/ TimerSaveParty(t)

SpecLife == InitLife /\ [][NextLife]_vars

\* An open round in which 1 .. MaxVotants emetteurs have each cast a vote in
\* 0 .. 6; the recepteur closes it.
Votants == <<"a", "b", "c", "d", "e">>

NomOf(o) == <<o>>

RECURSIVE Joined(_, _)
Joined(party, n) ==
  IF n = 0 THEN party ELSE AddEmetteur(Joined(party, n - 1), Votants[n], NomOf(Votants[n]))

RECURSIVE Voted(_, _)
Voted(party, valeurs) ==
  IF valeurs = <<>> THEN party
  ELSE CastVote(Voted(party, SubSeq(valeurs, 1, Len(valeurs) - 1)),
                Votants[Len(valeurs)], valeurs[Len(valeurs)])

InitMoyenne ==
  \E n \in 1 .. MaxVotants :
    \E valeurs \in [1 .. n -> 0 .. 6] :
      Settled(Voted(OpenVote(CloseDoors(Joined(NewParty("1000", "r"), n)), 0, 0),
                    valeurs),
              Conns(<<"r">>), NoTimer)

NextMoyenne ==
  \/ CloseVoteEvent("s1")
  \/ \E t \in Tasks :
       CloseVoteGetUserParty(t) \/ CloseVoteLockGet(t) \/ CloseVoteSaveParty(t)

SpecMoyenne == InitMoyenne /\ [][NextMoyenne]_vars


\* A session that "a" has joined, with a third socket s3 that never registered
\* an odId: everybody sends every action, in every etat.
InitReject ==
  Settled(AddEmetteur(NewParty("1000", "r"), "a", NomA), Conns(<<"r", "a">>), NoTimer)

NextReject ==
  \/ \E s \in {"s1", "s2", "s3"} : CloseDoorsEvent(s)
  \/ \E s \in {"s1", "s2", "s3"} : OpenVoteEvent(s, 0)
  \/ \E s \in {"s1", "s2", "s3"} : CloseVoteEvent(s)
  \/ \E s \in {"s1", "s2", "s3"} : EndPartyEvent(s)
  \/ \E s \in {"s1", "s2", "s3"} : VoteEvent(s, <<"2">>)
  \/ \E t \in Tasks :
       \/ CloseDoorsGetUserParty(t) \/ CloseDoorsLockGet(t) \/ CloseDoorsSaveParty(t)
       \/ OpenVoteGetUserParty(t) \/ OpenVoteLockGet(t) \/ OpenVoteSaveParty(t)
       \/ CloseVoteGetUserParty(t) \/ CloseVoteLockGet(t) \/ CloseVoteSaveParty(t)
       \/ VoteGetUserParty(t) \/ VoteLockGet(t) \/ VoteSaveParty(t)
       \/ EndPartyGetUserParty(t) \/ EndPartyGetParty(t) \/ EndPartyDelEmetteur(t)
       \/ EndPartyDelSelf(t) \/ EndPartyDelParty(t)

SpecReject == InitReject /\ [][NextReject]_vars

\* The same session without votes but with the timer: everybody sends the
\* recepteur's actions, in every etat, while the timer of a round runs.
InitRefuse ==
  Settled(AddEmetteur(NewParty("1000", "r"), "a", NomA), Conns(<<"r", "a">>), NoTimer)

NextRefuse ==
  \/ \E s \in {"s1", "s2", "s3"} : CloseDoorsEvent(s)
  \/ \E s \in {"s1", "s2", "s3"} : OpenVoteEvent(s, 1)
  \/ \E s \in {"s1", "s2", "s3"} : CloseVoteEvent(s)
  \/ \E s \in {"s1", "s2", "s3"} : EndPartyEvent(s)
  \/ TimerFire("1000")
  \/ Advance(ClockStep)
  \/ \E t \in Tasks :
       \/ CloseDoorsGetUserParty(t) \/ CloseDoorsLockGet(t) \/ CloseDoorsSaveParty(t)
       \/ OpenVoteGetUserParty(t) \/ OpenVoteLockGet(t) \/ OpenVoteSaveParty(t)
       \/ CloseVoteGetUserParty(t) \/ CloseVoteLockGet(t) \/ CloseVoteSaveParty(t)
       \/ EndPartyGetUserParty(t) \/ EndPartyGetParty(t) \/ EndPartyDelEmetteur(t)
       \/ EndPartyDelSelf(t) \/ EndPartyDelParty(t)
       \/ TimerLockGet(t) \/ TimerSaveParty(t)

SpecRefuse == InitRefuse /\ [][NextRefuse]_vars

\* What a client can put in the valeur of a vote, as the string parseInt makes
\* of it: the numbers 0, 6, 7, -1 and 2.5, the strings "5x" and "x", and
\* nothing.
ValeurCases ==
  { <<"0">>, <<"6">>, <<"7">>, <<"-", "1">>, <<"2", ".", "5">>, <<"5", "x">>,
    <<"x">>, <<>> }

\* An open round without timer in which "a" and "b" send every valeur.
InitValeur ==
  Settled(OpenVote(CloseDoors(AddEmetteur(AddEmetteur(NewParty("1000", "r"),
                                                      "a", NomA), "b", NomB)),
                   0, 0),
          Conns(<<"r", "a", "b">>), NoTimer)

NextValeur ==
  \/ \E s \in {"s2", "s3"}, v \in ValeurCases : VoteEvent(s, v)
  \/ \E t \in Tasks : VoteGetUserParty(t) \/ VoteLockGet(t) \/ VoteSaveParty(t)

SpecValeur == InitValeur /\ [][NextValeur]_vars

\* A session that is one emetteur short of the limit, as a restarted server
\* finds it in the store: the 24 emetteurs of Inscrits are stored, no socket is
\* registered yet.  "a", "b" and "c" join at the same time and drop.
Inscrits ==
  { "p01", "p02", "p03", "p04", "p05", "p06", "p07", "p08", "p09", "p10",
    "p11", "p12", "p13", "p14", "p15", "p16", "p17", "p18", "p19", "p20",
    "p21", "p22", "p23", "p24" }

RECURSIVE JoinedAll(_, _)
JoinedAll(party, ods) ==
  IF ods = {} THEN party
  ELSE LET o == CHOOSE x \in ods : TRUE
       IN  AddEmetteur(JoinedAll(party, ods \ {o}), o, NomOf(o))

InitFull ==
  /\ redisParty = [c \in Codes |->
                     IF c = "1000" THEN JoinedAll(NewParty("1000", "r"), Inscrits)
                     ELSE NoParty]
  /\ redisOd = [o \in OdIds \cup Inscrits |->
                  IF o = "r" \/ o \in Inscrits THEN "1000" ELSE Null]
  /\ odToSocket = [o \in OdIds \cup Inscrits |-> Null]
  /\ socketToOd = [s \in Sockets |-> Null]
  /\ partyLocks = [k \in LockKeys |-> Absent]
  /\ timerIntervals = [c \in Codes |-> NoTimer]
  /\ rooms = [s \in Sockets |-> {}]
  /\ closed = [s \in Sockets |-> FALSE]
  /\ now = 0
  /\ tasks = [t \in Tasks |-> Idle]
  /\ emitted = <<>>

NextFull ==
  \/ JoinParty("s2", "1000", NomA, "a")
  \/ JoinParty("s3", "1000", NomB, "b")
  \/ JoinParty("s4", "1000", NomC, "c")
  \/ \E s \in {"s2", "s3", "s4"} : Disconnect(s)
  \/ \E t \in Tasks :
       \/ JoinGetUserParty(t) \/ JoinLockGet(t) \/ JoinSaveParty(t)
       \/ JoinSetUserParty(t)
       \/ DisconnectGetUserParty(t) \/ DisconnectGetParty(t)
       \/ DisconnectLockGet(t) \/ DisconnectSaveParty(t)

SpecFull == InitFull /\ [][NextFull]_vars

\* A round opened with a timer of one second and left to its timer: "a" and
\* "b" vote, the recepteur may close the doors again, nobody sends close-vote,
\* open-vote or end-party.
InitTimer ==
  Settled(OpenVote(CloseDoors(AddEmetteur(AddEmetteur(NewParty("1000", "r"),
                                                      "a", NomA), "b", NomB)),
                   1, 0),
          Conns(<<"r", "a", "b">>), TimerPeriod)

\* the event loop runs the continuation of handler t
TaskStep(t) ==
  \/ VoteGetUserParty(t) \/ VoteLockGet(t) \/ VoteSaveParty(t)
  \/ CloseDoorsGetUserParty(t) \/ CloseDoorsLockGet(t) \/ CloseDoorsSaveParty(t)
  \/ TimerLockGet(t) \/ TimerSaveParty(t)

NextTimer ==
  \/ \E s \in {"s2", "s3"}, v \in {<<"2">>, <<"5">>} : VoteEvent(s, v)
  \/ CloseDoorsEvent("s1")
  \/ TimerFire("1000")
  \/ Advance(ClockStep)
  \/ \E t \in Tasks : TaskStep(t)

\* Store calls answer and continuations run (weak fairness of every handler
\* step), time passes (weak fairness of the clock), and an interval that is
\* due gets its callback run however busy the handlers are (strong fairness
\* of the tick, which the handler pool of the model would otherwise starve).
FairTimer ==
  /\ \A t \in Tasks : WF_vars(TaskStep(t))
  /\ WF_vars(Advance(ClockStep))
  /\ SF_vars(TimerFire("1000"))

SpecTimer == InitTimer /\ [][NextTimer]_vars /\ FairTimer

\* From the empty server: "r" on s1 and "a" on s2 send start-party at the same
\* time, and end the party they hold.
NextStart ==
  \/ StartParty("s1", "r")
  \/ StartParty("s2", "a")
  \/ \E s \in {"s1", "s2"} : EndPartyEvent(s)
  \/ \E t \in Tasks :
       \/ StartGetUserParty(t) \/ StartGetExisting(t) \/ StartDelUser(t)
       \/ GenerateCode(t) \/ StartSaveParty(t) \/ StartSetUserParty(t)
       \/ EndPartyGetUserParty(t) \/ EndPartyGetParty(t)
       \/ EndPartyDelSelf(t) \/ EndPartyDelParty(t)

SpecStart == Fresh /\ [][NextStart]_vars

\* Two sessions, each as its start-party left it: "r" holds 1000 on s1 and "d"
\* holds 2000 on s2.  "a" sends join-party for both, on s3 and on s4.
InitTwo ==
  /\ redisParty = [c \in Codes |-> IF c = "1000" THEN NewParty("1000", "r")
                                   ELSE NewParty("2000", "d")]
  /\ redisOd = [o \in OdIds |-> IF o = "r" THEN "1000"
                                ELSE IF o = "d" THEN "2000" ELSE Null]
  /\ odToSocket = [o \in OdIds |-> IF o = "r" THEN "s1"
                                   ELSE IF o = "d" THEN "s2" ELSE Null]
  /\ socketToOd = [s \in Sockets |-> IF s = "s1" THEN "r"
                                     ELSE IF s = "s2" THEN "d" ELSE Null]
  /\ partyLocks = [k \in LockKeys |-> Absent]
  /\ timerIntervals = [c \in Codes |-> NoTimer]
  /\ rooms = [s \in Sockets |-> IF s = "s1" THEN {"1000"}
                                ELSE IF s = "s2" THEN {"2000"} ELSE {}]
  /\ closed = [s \in Sockets |-> FALSE]
  /\ now = 0
  /\ tasks = [t \in Tasks |-> Idle]
  /\ emitted = <<>>

NextTwo ==
  \/ JoinParty("s3", "1000", NomA, "a")
  \/ JoinParty("s4", "2000", NomA, "a")
  \/ \E t \in Tasks :
       \/ JoinGetUserParty(t) \/ JoinGetOther(t) \/ JoinLockGet(t)
       \/ JoinSaveParty(t) \/ JoinSetUserParty(t)

SpecTwo == InitTwo /\ [][NextTwo]_vars

\* The session 1000 of "r" with the emetteur "a": a third socket sends
\* reconnect-party with a known or unknown odId, for the stored code or for a
\* code that is not stored, and the recepteur may end the session.
InitReconnect ==
  Settled(AddEmetteur(NewParty("1000", "r"), "a", NomA), Conns(<<"r", "a">>), NoTimer)

NextReconnect ==
  \/ \E o \in {"r", "a", "c"}, c \in Codes : ReconnectParty("s3", o, c)
  \/ EndPartyEvent("s1")
  \/ \E t \in Tasks :
       \/ ReconnectLockGet(t) \/ ReconnectSaveParty(t) \/ ReconnectSetUserParty(t)
       \/ EndPartyGetUserParty(t) \/ EndPartyGetParty(t) \/ EndPartyDelEmetteur(t)
       \/ EndPartyDelSelf(t) \/ EndPartyDelParty(t)

SpecReconnect == InitReconnect /\ [][NextReconnect]_vars

\* A full session: the 24 emetteurs of Inscrits and "a" are stored, the
\* recepteur is on s1 and plays rounds, "a" sends join-party again on s2 and
\* on s4 under another name, votes and drops s2, and "c" tries to join.
InitRejoin ==
  /\ redisParty = [c \in Codes |->
                     IF c = "1000"
                     THEN AddEmetteur(JoinedAll(NewParty("1000", "r"), Inscrits),
                                      "a", NomA)
                     ELSE NoParty]
  /\ redisOd = [o \in OdIds \cup Inscrits |->
                  IF o \in {"r", "a"} \cup Inscrits THEN "1000" ELSE Null]
  /\ odToSocket = [o \in OdIds \cup Inscrits |-> IF o = "r" THEN "s1" ELSE Null]
  /\ socketToOd = [s \in Sockets |-> IF s = "s1" THEN "r" ELSE Null]
  /\ partyLocks = [k \in LockKeys |-> Absent]
  /\ timerIntervals = [c \in Codes |-> NoTimer]
  /\ rooms = [s \in Sockets |-> IF s = "s1" THEN {"1000"} ELSE {}]
  /\ closed = [s \in Sockets |-> FALSE]
  /\ now = 0
  /\ tasks = [t \in Tasks |-> Idle]
  /\ emitted = <<>>

NextRejoin ==
  \/ \E s \in {"s2", "s4"} : JoinParty(s, "1000", NomB, "a")
  \/ JoinParty("s3", "1000", NomC, "c")
  \/ Disconnect("s2")
  \/ CloseDoorsEvent("s1")
  \/ OpenVoteEvent("s1", 0)
  \/ CloseVoteEvent("s1")
  \/ VoteEvent("s2", <<"2">>)
  \/ \E t \in Tasks :
       \/ JoinGetUserParty(t) \/ JoinLockGet(t) \/ JoinSaveParty(t)
       \/ JoinSetUserParty(t)
       \/ DisconnectGetUserParty(t) \/ DisconnectGetParty(t)
       \/ DisconnectLockGet(t) \/ DisconnectSaveParty(t)
       \/ CloseDoorsGetUserParty(t) \/ CloseDoorsLockGet(t) \/ CloseDoorsSaveParty(t)
       \/ OpenVoteGetUserParty(t) \/ OpenVoteLockGet(t) \/ OpenVoteSaveParty(t)
       \/ CloseVoteGetUserParty(t) \/ CloseVoteLockGet(t) \/ CloseVoteSaveParty(t)
       \/ VoteGetUserParty(t) \/ VoteLockGet(t) \/ VoteSaveParty(t)

SpecRejoin == InitRejoin /\ [][NextRejoin]_vars

\* An open round with a timer in which the store may fail: "a" and "b" vote,
\* the recepteur closes the vote, the interval fires, and any store call made
\* under the lock may throw.
InitFail ==
  Settled(OpenVote(CloseDoors(AddEmetteur(AddEmetteur(NewParty("1000", "r"),
                                                      "a", NomA), "b", NomB)),
                   1, 0),
          Conns(<<"r", "a", "b">>), TimerPeriod)

\* the pending store call of handler t answers or throws
HandlerSettles(t) ==
  \/ VoteGetUserParty(t) \/ VoteLockGet(t) \/ VoteSaveParty(t)
  \/ CloseVoteGetUserParty(t) \/ CloseVoteLockGet(t) \/ CloseVoteSaveParty(t)
  \/ TimerLockGet(t) \/ TimerSaveParty(t)
  \/ StoreFails(t)

NextFail ==
  \/ \E s \in {"s2", "s3"} : VoteEvent(s, <<"2">>)
  \/ CloseVoteEvent("s1")
  \/ TimerFire("1000")
  \/ Advance(ClockStep)
  \/ \E t \in Tasks : HandlerSettles(t)

\* Every store call settles: it answers or it throws.
FairFail == \A t \in Tasks : WF_vars(HandlerSettles(t))

SpecFail == InitFail /\ [][NextFail]_vars /\ FairFail

\* The session 1000 of "r" during a round, with "a" on s2 and "b" on s3 and a
\* pool of three handler invocations: "a" votes, the recepteur ends the
\* session and "b" sends reconnect-party for the code on a fourth socket.
FifoTasks == 3

InitFifo ==
  /\ redisParty = [c \in Codes |->
                     IF c = "1000"
                     THEN OpenVote(CloseDoors(AddEmetteur(AddEmetteur(
                            NewParty("1000", "r"), "a", NomA), "b", NomB)), 0, 0)
                     ELSE NoParty]
  /\ redisOd = [o \in OdIds |-> IF o \in {"r", "a", "b"} THEN "1000" ELSE Null]
  /\ odToSocket = [o \in OdIds |->
                     IF o = "r" THEN "s1" ELSE IF o = "a" THEN "s2"
                     ELSE IF o = "b" THEN "s3" ELSE Null]
  /\ socketToOd = [s \in Sockets |->
                     IF s = "s1" THEN "r" ELSE IF s = "s2" THEN "a"
                     ELSE IF s = "s3" THEN "b" ELSE Null]
  /\ partyLocks = [k \in LockKeys |-> IF k = "1000" THEN Resolved ELSE Absent]
  /\ timerIntervals = [c \in Codes |-> NoTimer]
  /\ rooms = [s \in Sockets |-> IF s = "s4" THEN {} ELSE {"1000"}]
  /\ closed = [s \in Sockets |-> FALSE]
  /\ now = 0
  /\ tasks = [t \in 1 .. FifoTasks |-> Idle]
  /\ emitted = <<>>

NextFifo ==
  \/ VoteEvent("s2", <<"2">>)
  \/ EndPartyEvent("s1")
  \/ ReconnectParty("s4", "b", "1000")
  \/ \E t \in 1 .. FifoTasks :
       \/ VoteGetUserParty(t) \/ VoteLockGet(t) \/ VoteSaveParty(t)
       \/ EndPartyGetUserParty(t) \/ EndPartyGetParty(t) \/ EndPartyDelEmetteur(t)
       \/ EndPartyDelSelf(t) \/ EndPartyDelParty(t)
       \/ ReconnectLockGet(t) \/ ReconnectSaveParty(t) \/ ReconnectSetUserParty(t)

SpecFifo == InitFifo /\ [][NextFifo]_vars

\* A round opened with a timer of two seconds, one second after open-vote, when
\* the first tick of its interval is due; the clock is read to a quarter of a
\* second, "a" votes, and the tick waits for the lock and for the store.
ClockQuarter == 250

InitEarly ==
  Settled(OpenVote(CloseDoors(AddEmetteur(NewParty("1000", "r"), "a", NomA)),
                   2, 0 - TimerPeriod),
          Conns(<<"r", "a">>), 0)

NextEarly ==
  \/ \E v \in {<<"2">>, <<"5">>} : VoteEvent("s2", v)
  \/ TimerFire("1000")
  \/ Advance(ClockQuarter)
  \/ \E t \in Tasks :
       \/ VoteGetUserParty(t) \/ VoteLockGet(t) \/ VoteSaveParty(t)
       \/ TimerLockGet(t) \/ TimerSaveParty(t)

SpecEarly == InitEarly /\ [][NextEarly]_vars

\* From Init, the session 1000 of "r" before anybody has joined: "a" and "b" join, "b"
\* under the nom that "a" may have taken too, and the recepteur plays rounds in
\* which both vote.
NextHomonymes ==
  \/ \E nom \in {NomA, NomB} : JoinParty("s2", "1000", nom, "a")
  \/ JoinParty("s3", "1000", NomA, "b")
  \/ CloseDoorsEvent("s1")
  \/ OpenVoteEvent("s1", 0)
  \/ CloseVoteEvent("s1")
  \/ VoteEvent("s2", <<"2">>)
  \/ VoteEvent("s3", <<"5">>)
  \/ \E t \in Tasks :
       \/ JoinGetUserParty(t) \/ JoinLockGet(t) \/ JoinSaveParty(t)
       \/ JoinSetUserParty(t)
       \/ CloseDoorsGetUserParty(t) \/ CloseDoorsLockGet(t) \/ CloseDoorsSaveParty(t)
       \/ OpenVoteGetUserParty(t) \/ OpenVoteLockGet(t) \/ OpenVoteSaveParty(t)
       \/ CloseVoteGetUserParty(t) \/ CloseVoteLockGet(t) \/ CloseVoteSaveParty(t)
       \/ VoteGetUserParty(t) \/ VoteLockGet(t) \/ VoteSaveParty(t)

SpecHomonymes == Init /\ [][NextHomonymes]_vars

\* From InitReconnect, the session 1000 of "r" on s1 with the emetteur "a" on
\* s2: the recepteur ends it, and "c" starts sessions on s3 and ends them, whatever codes they
\* get.
NextReuse ==
  \/ \E s \in {"s1", "s3"} : EndPartyEvent(s)
  \/ StartParty("s3", "c")
  \/ \E t \in Tasks :
       \/ EndPartyGetUserParty(t) \/ EndPartyGetParty(t) \/ EndPartyDelEmetteur(t)
       \/ EndPartyDelSelf(t) \/ EndPartyDelParty(t)
       \/ StartGetUserParty(t) \/ StartGetExisting(t) \/ StartDelUser(t)
       \/ GenerateCode(t) \/ StartSaveParty(t) \/ StartSetUserParty(t)

SpecReuse == InitReconnect /\ [][NextReuse]_vars

\* ----------------------------------------------------------------- claims
\* the message m is among those a step emitted
Emits(seq, m) ==
  \E i \in DOMAIN seq :
    seq[i].ev = m.ev /\ seq[i].room = m.room /\ seq[i].to = m.to
    /\ seq[i].data = m.data

\* task t took a step
Stepped(t) == tasks'[t].pc # tasks[t].pc \/ tasks'[t].kind # tasks[t].kind

\* C1: in an open round, whatever the interleaving of the vote handlers with
\* each other and with join, reconnect, disconnect and timer ticks, no stored
\* vote is ever dropped or changed by anyone but its voter, the votes map has
\* one entry per voter, and a vote that is acknowledged is stored with the
\* acknowledged value.
C1_NoVoteLost ==
  [][\A c \in Codes :
       LET p == redisParty[c]
           q == redisParty'[c]
       IN  (p # NoParty /\ q # NoParty) =>
             /\ Len(q.votes) = Cardinality(VoteKeys(q.votes))
             /\ \A o \in VoteKeys(p.votes) :
                  /\ HasVote(q.votes, o)
                  /\ \/ VoteOf(q.votes, o) = VoteOf(p.votes, o)
                     \/ \E t \in Tasks : VoteSaveParty(t) /\ tasks[t].odId = o
             /\ \A t \in Tasks :
                  (VoteSaveParty(t) /\ tasks[t].code = c) =>
                    /\ HasVote(q.votes, tasks[t].odId)
                    /\ Emits(emitted', ToSocket(tasks[t].socket, "vote-confirmed",
                                                VoteOf(q.votes, tasks[t].odId)))
                    /\ VoteKeys(q.votes) = VoteKeys(p.votes) \cup {tasks[t].odId}
    ]_vars

\* two vote handlers of two voters are in flight together: one holds the lock
\* with its vote ready to be saved, the other waits behind it
C1_Witness ==
  \E t, u \in Tasks :
    /\ At(t, "vote", "saveParty") /\ At(u, "vote", "lockGet")
    /\ tasks[u].prev = t /\ tasks[t].odId # tasks[u].odId
    /\ ParseInt(tasks[u].arg).n \in 0 .. 6

\* C2: the stored etat changes only along OUVERTE -> FERMEE,
\* FERMEE -> VOTE_OUVERT, VOTE_FERME -> VOTE_OUVERT and VOTE_OUVERT -> VOTE_FERME.
Edges ==
  { <<"OUVERTE", "FERMEE">>, <<"FERMEE", "VOTE_OUVERT">>,
    <<"VOTE_FERME", "VOTE_OUVERT">>, <<"VOTE_OUVERT", "VOTE_FERME">> }

C2_OnlyEdges ==
  [][\A c \in Codes :
       (redisParty[c] # NoParty /\ redisParty'[c] # NoParty
        /\ redisParty'[c].etat # redisParty[c].etat)
       => <<redisParty[c].etat, redisParty'[c].etat>> \in Edges
    ]_vars

C6_DisconnectFrame ==
  [][/\ \A s \in Sockets : Disconnect(s) => redisParty' = redisParty
     /\ \A t \in Tasks :
          (tasks[t].kind = "disconnect" /\ Stepped(t)) =>
            IF DisconnectSaveParty(t)
            THEN LET p == redisParty[tasks[t].code]
                     o == tasks[t].odId
                 IN  /\ p # NoParty /\ o \in DOMAIN p.emetteurs
                     /\ o # p.recepteurOdId
                     /\ redisParty' = [redisParty EXCEPT ![tasks[t].code] =
                                         [p EXCEPT !.emetteurs[o].connecte = FALSE]]
            ELSE redisParty' = redisParty
    ]_vars

\* an emetteur that voted and then dropped: its vote and its name are stored,
\* its flag is false
C6_Witness ==
  /\ redisParty["1000"] # NoParty
  /\ "a" \in DOMAIN redisParty["1000"].emetteurs
  /\ ~redisParty["1000"].emetteurs["a"].connecte
  /\ HasVote(redisParty["1000"].votes, "a")
  /\ closed["s1"]


\* C8 as written: a round produces at most one historique entry. The stored
\* moyenne is null from open-vote until the round's entry is appended, so once
\* it is set nothing is appended before the next open-vote.
C8_OneEntryPerRound ==
  [][\A c \in Codes :
       (redisParty[c] # NoParty /\ redisParty'[c] # NoParty
        /\ redisParty[c].moyenne # NoMoyenne)
       => Len(redisParty'[c].historique) <= Len(redisParty[c].historique)
    ]_vars

\* C9: the entries of historique are numbered 1, 2, 3, ... in order; no step
\* removes or changes an entry; a closeVote that finds at least one vote adds
\* exactly one entry.
IsPrefix(h, g) == Len(h) <= Len(g) /\ \A i \in DOMAIN h : g[i] = h[i]

C9_Historique ==
  [][\A c \in Codes :
       LET p == redisParty[c]
           q == redisParty'[c]
       IN  (p # NoParty /\ q # NoParty) =>
             /\ IsPrefix(p.historique, q.historique)
             /\ \A i \in DOMAIN q.historique : q.historique[i].numero = i
             /\ \A t \in Tasks :
                  ((CloseVoteSaveParty(t) \/ TimerSaveParty(t))
                   /\ tasks[t].code = c /\ Len(p.votes) > 0)
                  => Len(q.historique) = Len(p.historique) + 1
    ]_vars

\* two rounds were closed with votes: two entries are stored
C9_Witness ==
  /\ redisParty["1000"] # NoParty
  /\ Len(redisParty["1000"].historique) = 2
  /\ redisParty["1000"].historique[2].nbVotants = 1


\* C4: a join-party with the code of a stored party and an odId that is new to
\* it is accepted whatever the etat, also after rounds were played: the caller
\* is told role emetteur and is stored as a connected emetteur; its valid vote
\* in an open round is stored like any other; and the closeVote of that round
\* counts every stored vote in nbVotants and in the moyenne.
C4_LateJoin ==
  [][\A t \in Tasks :
       LET tk == tasks[t]
           p == redisParty[tk.code]
           q == redisParty'[tk.code]
       IN  /\ (At(t, "join", "lockGet") /\ Stepped(t) /\ p # NoParty
               /\ tk.odId \notin DOMAIN p.emetteurs
               /\ Cardinality(DOMAIN p.emetteurs) < MaxEmetteurs)
              => /\ tasks'[t].pc = "saveParty"
                 /\ tasks'[t].party.etat = p.etat
                 /\ tasks'[t].party.historique = p.historique
           /\ (JoinSetUserParty(t) /\ tk.branch = "new")
              => /\ Emits(emitted', ToSocket(tk.socket, "role", "emetteur"))
                 /\ p # NoParty /\ tk.odId \in DOMAIN p.emetteurs
                 /\ p.emetteurs[tk.odId].connecte
                 /\ redisOd'[tk.odId] = tk.code
           /\ (At(t, "vote", "lockGet") /\ Stepped(t) /\ p # NoParty
               /\ p.etat = "VOTE_OUVERT" /\ tk.odId \in DOMAIN p.emetteurs
               /\ ~ParseInt(tk.arg).nan /\ ParseInt(tk.arg).n \in 0 .. 6)
              => /\ tasks'[t].pc = "saveParty"
                 /\ VoteOf(tasks'[t].party.votes, tk.odId) = ParseInt(tk.arg).n
           /\ (CloseVoteSaveParty(t) /\ p # NoParty /\ Len(p.votes) > 0)
              => LET h == q.historique[Len(q.historique)]
                 IN  /\ h.nbVotants = Cardinality(VoteKeys(p.votes))
                     /\ q.moyenne = Moyenne(SumVotes(p.votes), Len(p.votes))
                     /\ \A o \in VoteKeys(p.votes) \cap DOMAIN p.emetteurs :
                          /\ p.emetteurs[o].nom \in DOMAIN h.votes
                          /\ h.votes[p.emetteurs[o].nom] = VoteOf(p.votes, o)
    ]_vars

\* "a", who joined after the first round, is counted in the second
C4_Witness ==
  /\ redisParty["1000"] # NoParty
  /\ Len(redisParty["1000"].historique) = 2
  /\ redisParty["1000"].historique[1].nbVotants = 1
  /\ redisParty["1000"].historique[2].nbVotants = 2
  /\ NomA \in DOMAIN redisParty["1000"].historique[2].votes
  /\ redisParty["1000"].historique[2].votes[NomA] = 2

\* C5 as written: a reconnect-party that completes for an odId that is a key
\* of the emetteurs of the party tells the caller role emetteur, leaves that
\* emetteur connected, leaves the keys of emetteurs and the votes as they
\* were, and re-sends the stored vote of the odId if there is one.
C5_ReconnectEmetteur ==
  [][\A t \in Tasks :
       LET tk == tasks[t]
           p == redisParty[tk.code]
       IN  (ReconnectSetUserParty(t) /\ p # NoParty
            /\ tk.odId \in DOMAIN p.emetteurs)
           => /\ Emits(emitted', ToSocket(tk.socket, "role", "emetteur"))
              /\ p.emetteurs[tk.odId].connecte
              /\ DOMAIN p.emetteurs = DOMAIN GetParty(tk.code).emetteurs
              /\ redisParty'[tk.code].votes = p.votes
              /\ HasVote(p.votes, tk.odId)
                 => Emits(emitted', ToSocket(tk.socket, "vote-confirmed",
                                             VoteOf(p.votes, tk.odId)))
    ]_vars

\* C7: a stored party disappears only in the deleteParty of an end-party sent
\* by its recepteur; the handler of the dropped socket of the recepteur leaves
\* the stored party it finds, the armed interval and the odId -> code bindings as they
\* are; a reconnect-party of the recepteur is answered with role recepteur and
\* its open-vote is then accepted.
C7_OnlyEndRemoves ==
  [][/\ \A c \in Codes :
          (redisParty[c] # NoParty /\ redisParty'[c] = NoParty)
          => \E t \in Tasks :
               /\ EndPartyDelParty(t) /\ tasks[t].code = c
               /\ tasks[t].odId = redisParty[c].recepteurOdId
     /\ \A s \in Sockets :
          Disconnect(s) => UNCHANGED <<redisParty, redisOd, timerIntervals>>
     /\ \A t \in Tasks :
          LET tk == tasks[t]
              p == GetParty(tk.code)
          IN  /\ (tk.kind = "disconnect" /\ tk.pc \in {"getUserParty", "getParty"}
                  /\ Stepped(t) /\ p # NoParty /\ tk.odId = p.recepteurOdId)
                 => /\ UNCHANGED <<redisParty, redisOd, timerIntervals>>
                    /\ tasks'[t].pc \in {"getParty", "idle"}
              /\ (At(t, "reconnect", "lockGet") /\ Stepped(t) /\ p # NoParty
                  /\ tk.odId = p.recepteurOdId)
                 => tasks'[t].pc = "setUserParty" /\ tasks'[t].branch = "recepteur"
              /\ (ReconnectSetUserParty(t) /\ tk.branch = "recepteur")
                 => Emits(emitted', ToSocket(tk.socket, "role", "recepteur"))
              /\ (At(t, "open-vote", "lockGet") /\ Stepped(t) /\ p # NoParty
                  /\ tk.odId = p.recepteurOdId)
                 => tasks'[t].pc = "saveParty"
    ]_vars

\* the socket s1 of the recepteur has dropped, the party is still stored, and
\* the recepteur, back on s3, has an open-vote about to be saved
C7_Witness ==
  /\ closed["s1"] /\ redisParty["1000"] # NoParty
  /\ \A t \in Tasks : tasks[t].kind # "disconnect"
  /\ \E t \in Tasks : At(t, "open-vote", "saveParty") /\ tasks[t].socket = "s3"

\* C10: after a closeVote that found n > 0 votes of sum S, ten times the
\* stored moyenne is the integer nearest to 10 * S / n, the upper one when
\* 10 * S / n lies half way between two integers, and the last entry of
\* historique carries that moyenne and nbVotants = n.
C10_Moyenne ==
  \A c \in Codes :
    LET p == redisParty[c]
        n == Len(p.votes)
        S == SumVotes(p.votes)
    IN  (p # NoParty /\ p.etat = "VOTE_FERME" /\ n > 0) =>
          /\ 2 * n * p.moyenne - n <= 20 * S
          /\ 20 * S < 2 * n * p.moyenne + n
          /\ p.historique # <<>>
          /\ p.historique[Len(p.historique)].moyenne = p.moyenne
          /\ p.historique[Len(p.historique)].nbVotants = n

\* four votes of sum 1: 10 * S / n = 2.5 is stored as 3 (0.3)
C10_Witness ==
  /\ redisParty["1000"] # NoParty
  /\ redisParty["1000"].etat = "VOTE_FERME"
  /\ Len(redisParty["1000"].votes) = 4
  /\ SumVotes(redisParty["1000"].votes) = 1
  /\ redisParty["1000"].moyenne = 3
  /\ redisParty["1000"].historique[1].moyenne = 3


\* C11: a closeVote, from close-vote or from the tick of the timer, that finds
\* the party in VOTE_OUVERT with no vote stores etat VOTE_FERME, moyenne null
\* and timerEndTime null, and leaves historique as it was.
C11_CloseEmpty ==
  [][\A t \in Tasks :
       LET p == redisParty[tasks[t].code]
           q == redisParty'[tasks[t].code]
       IN  ((CloseVoteSaveParty(t) \/ TimerSaveParty(t))
            /\ p # NoParty /\ p.etat = "VOTE_OUVERT" /\ p.votes = <<>>)
           => /\ q.etat = "VOTE_FERME"
              /\ q.moyenne = NoMoyenne
              /\ q.timerEndTime = 0
              /\ q.historique = p.historique
              /\ q.emetteurs = p.emetteurs /\ q.votes = <<>>
    ]_vars

\* the tick of the timer is about to close a round in which nobody voted
C11_Witness ==
  \E t \in Tasks :
    /\ At(t, "tick", "saveParty")
    /\ redisParty[tasks[t].code] # NoParty
    /\ redisParty[tasks[t].code].etat = "VOTE_OUVERT"
    /\ redisParty[tasks[t].code].votes = <<>>

\* C12: when an odId that has a stored vote votes again in the same round, the
\* votes keep exactly one entry for it, holding the value that was just
\* acknowledged, the other entries are untouched, and the moyenne of the
\* closeVote is that of the stored entries, one per voter.
C12_LastVoteCounts ==
  [][\A t \in Tasks :
       LET tk == tasks[t]
           p == redisParty[tk.code]
           q == redisParty'[tk.code]
       IN  /\ (VoteSaveParty(t) /\ p # NoParty)
              => /\ Cardinality({i \in DOMAIN q.votes : q.votes[i].odId = tk.odId}) = 1
                 /\ Emits(emitted', ToSocket(tk.socket, "vote-confirmed",
                                             VoteOf(q.votes, tk.odId)))
                 /\ VoteOf(q.votes, tk.odId) = DigitsValue(tk.arg, 0)
                 /\ Len(q.votes) = Len(p.votes) + (IF HasVote(p.votes, tk.odId) THEN 0 ELSE 1)
                 /\ \A o \in VoteKeys(p.votes) \ {tk.odId} :
                      VoteOf(q.votes, o) = VoteOf(p.votes, o)
           /\ ((CloseVoteSaveParty(t) \/ TimerSaveParty(t))
               /\ p # NoParty /\ p.votes # <<>>)
              => LET n == Cardinality(VoteKeys(p.votes))
                     S == SumVotes(p.votes)
                 IN  /\ Len(p.votes) = n
                     /\ 2 * n * q.moyenne - n <= 20 * S
                     /\ 20 * S < 2 * n * q.moyenne + n
    ]_vars

\* "a", whose stored vote is 2, has a vote of 5 about to be saved
C12_Witness ==
  \E t \in Tasks :
    /\ At(t, "vote", "saveParty")
    /\ redisParty[tasks[t].code] # NoParty
    /\ HasVote(redisParty[tasks[t].code].votes, tasks[t].odId)
    /\ VoteOf(redisParty[tasks[t].code].votes, tasks[t].odId) = 2
    /\ VoteOf(tasks[t].party.votes, tasks[t].odId) = 5

\* C19 as written: the tick of a timer performs closeVote only in the round
\* the timer was armed for.  A manual closeVote and an open-vote without a
\* duration both store timerEndTime null, so a tick that performs closeVote
\* finds the deadline of its round still stored.
C19_TickClosesOwnRound ==
  [][\A t \in Tasks :
       (At(t, "tick", "lockGet") /\ tasks'[t].pc = "saveParty")
       => redisParty[tasks[t].code].timerEndTime # 0
    ]_vars

\* C13: a vote is applied only when the handler reads a session whose etat is
\* VOTE_OUVERT and whose emetteurs hold the caller's odId. When the session is
\* absent, in another etat, or the caller is unknown (no odId on the socket, or
\* an odId that is not an emetteur), the handler ends with one error sent to
\* the caller alone: the stored session is unchanged, no vote-confirmed and no
\* party-state is emitted.
C13_VoteRejected ==
  [][/\ \A s \in Sockets :
          (socketToOd[s] = Null /\ \E v \in ValeurInputs : VoteEvent(s, v)) =>
            /\ Len(emitted') = 1 /\ emitted'[1].ev = "error"
            /\ ~emitted'[1].room /\ emitted'[1].to = s
            /\ redisParty' = redisParty /\ tasks' = tasks
     /\ \A t \in Tasks :
          LET tk == tasks[t]
              p == GetParty(tk.code)
          IN  /\ (At(t, "vote", "lockGet") /\ Stepped(t)) =>
                   IF p = NoParty THEN
                     /\ Len(emitted') = 1 /\ emitted'[1].ev = "error"
                     /\ ~emitted'[1].room /\ emitted'[1].to = tk.socket
                     /\ redisParty' = redisParty /\ tasks'[t].kind = "idle"
                   ELSE IF p.etat # "VOTE_OUVERT" \/ tk.odId \notin DOMAIN p.emetteurs THEN
                     /\ Len(emitted') = 1 /\ emitted'[1].ev = "error"
                     /\ ~emitted'[1].room /\ emitted'[1].to = tk.socket
                     /\ redisParty' = redisParty /\ tasks'[t].kind = "idle"
                   ELSE redisParty' = redisParty
              /\ VoteSaveParty(t) =>
                   /\ tk.party.etat = "VOTE_OUVERT"
                   /\ tk.odId \in DOMAIN tk.party.emetteurs
     /\ (\E i \in DOMAIN emitted' : emitted'[i].ev = "vote-confirmed") =>
          \E t \in Tasks : VoteSaveParty(t)
    ]_vars

\* the emetteur "a" has voted while the vote was closed and got the error
C13_Witness ==
  /\ redisParty["1000"] # NoParty
  /\ redisParty["1000"].etat = "VOTE_FERME"
  /\ "a" \in DOMAIN redisParty["1000"].emetteurs
  /\ emitted = <<ToSocket("s2", "error", "Le vote n'est pas ouvert")>>

\* C15: close-doors, open-vote, close-vote and end-party sent by anyone but the
\* recepteur of the session (an emetteur, a socket without odId, or anyone once
\* the session is gone) end with one error sent to the caller alone; neither
\* the stored session, its timer, the odId bindings, the socket maps nor the
\* rooms change, and nothing is broadcast.
C15_CoordinatorOnly ==
  [][/\ \A s \in Sockets :
          (/\ socketToOd[s] = Null
           /\ \/ CloseDoorsEvent(s) \/ CloseVoteEvent(s) \/ EndPartyEvent(s)
              \/ \E d \in TimerInputs : OpenVoteEvent(s, d)) =>
            /\ Len(emitted') = 1 /\ emitted'[1].ev = "error"
            /\ ~emitted'[1].room /\ emitted'[1].to = s
            /\ tasks' = tasks
            /\ UNCHANGED <<redisParty, redisOd, timerIntervals, odToSocket,
                           socketToOd, rooms>>
     /\ \A t \in Tasks :
          LET tk == tasks[t]
              p == GetParty(tk.code)
              checks == \/ /\ tk.kind \in {"close-doors", "open-vote", "close-vote"}
                           /\ tk.pc = "lockGet"
                        \/ At(t, "end-party", "getParty")
              reads == /\ tk.kind \in {"close-doors", "open-vote", "close-vote",
                                       "end-party"}
                       /\ tk.pc = "getUserParty"
              refused == IF p = NoParty THEN TRUE ELSE tk.odId # p.recepteurOdId
          IN  /\ (checks /\ Stepped(t) /\ refused) =>
                   /\ Len(emitted') = 1 /\ emitted'[1].ev = "error"
                   /\ ~emitted'[1].room /\ emitted'[1].to = tk.socket
                   /\ tasks'[t].kind = "idle"
                   /\ UNCHANGED <<redisParty, redisOd, timerIntervals, odToSocket,
                                  socketToOd, rooms>>
              /\ (reads /\ Stepped(t)) =>
                   /\ emitted' = <<>>
                   /\ UNCHANGED <<redisParty, redisOd, timerIntervals, odToSocket,
                                  socketToOd, rooms>>
    ]_vars

\* the emetteur "a" has sent a recepteur's action during a timed vote and got
\* the error
C15_Witness ==
  /\ redisParty["1000"] # NoParty
  /\ redisParty["1000"].etat = "VOTE_OUVERT"
  /\ redisParty["1000"].recepteurOdId = "r"
  /\ socketToOd["s2"] = "a"
  /\ timerIntervals["1000"] # NoTimer
  /\ emitted = <<ToSocket("s2", "error", "Action non autorisee")>>

\* the valeurs that are an integer of 0..6
IntegerValeurs == { <<Digits[i]>> : i \in 1 .. 7 }

\* C14: every valeur stored in the votes is an integer of 0..6, and a vote
\* whose valeur is not an integer of 0..6 is refused: its handler stores
\* nothing and ends with one error to the caller.
C14_IntegerOnly ==
  [][/\ \A c \in Codes :
          redisParty'[c] # NoParty =>
            \A i \in DOMAIN redisParty'[c].votes :
              redisParty'[c].votes[i].valeur \in 0 .. 6
     /\ \A t \in Tasks :
          (At(t, "vote", "lockGet") /\ Stepped(t)
           /\ tasks[t].arg \notin IntegerValeurs) =>
            /\ Len(emitted') = 1 /\ emitted'[1].ev = "error"
            /\ emitted'[1].to = tasks[t].socket
            /\ tasks'[t].kind = "idle"
            /\ redisParty' = redisParty
    ]_vars

\* C16: every stored session has at most 25 emetteurs, also when more odIds
\* than the limit leaves room for send join-party for its code at the same
\* time.
C16_AtMost25 ==
  \A c \in Codes :
    redisParty[c] # NoParty =>
      Cardinality(DOMAIN redisParty[c].emetteurs) <= MaxEmetteurs

\* the session is full and a join-party has just been refused for it
C16_Witness ==
  /\ redisParty["1000"] # NoParty
  /\ Cardinality(DOMAIN redisParty["1000"].emetteurs) = MaxEmetteurs
  /\ Len(emitted) = 1 /\ emitted[1].ev = "error" /\ emitted[1].data = "full"

\* C17: in every stored session the odIds that have a vote are emetteurs of the
\* session.
C17_VotesOfEmetteurs ==
  \A c \in Codes :
    redisParty[c] # NoParty =>
      VoteKeys(redisParty[c].votes) \subseteq DOMAIN redisParty[c].emetteurs

\* "a" has voted and dropped, "c" has joined meanwhile: the vote of "a" is
\* stored with "a" still an emetteur
C17_Witness ==
  /\ redisParty["1000"] # NoParty
  /\ HasVote(redisParty["1000"].votes, "a")
  /\ "a" \in DOMAIN redisParty["1000"].emetteurs
  /\ ~redisParty["1000"].emetteurs["a"].connecte
  /\ "c" \in DOMAIN redisParty["1000"].emetteurs

\* C18: a round opened with a timer and left alone (no close-vote, open-vote
\* or end-party) is closed by its timer: under the fairness of SpecTimer the
\* session eventually is in VOTE_FERME with timerEndTime null and no interval
\* armed, its moyenne and the entry of its historique computed from the votes
\* stored at that time (moyenne null and no entry when there is none).
C18_TimerCloses ==
  <>(/\ redisParty["1000"] # NoParty
     /\ LET p == redisParty["1000"]
            n == Len(p.votes)
        IN  /\ p.etat = "VOTE_FERME"
            /\ p.timerEndTime = 0
            /\ timerIntervals["1000"] = NoTimer
            /\ IF n = 0
               THEN p.moyenne = NoMoyenne /\ p.historique = <<>>
               ELSE /\ p.moyenne = Moyenne(SumVotes(p.votes), n)
                    /\ p.historique =
                         <<[numero |-> 1, moyenne |-> p.moyenne, nbVotants |-> n,
                            votes |-> VotesDetail(p)]>>)

\* the timer has closed the round in which "a" voted 2 and "b" voted 5
C18_Witness ==
  /\ redisParty["1000"] # NoParty
  /\ redisParty["1000"].etat = "VOTE_FERME"
  /\ redisParty["1000"].timerEndTime = 0
  /\ timerIntervals["1000"] = NoTimer
  /\ now >= 1000
  /\ Len(redisParty["1000"].historique) = 1
  /\ redisParty["1000"].historique[1].nbVotants = 2
  /\ VoteOf(redisParty["1000"].votes, "a") = 2
  /\ VoteOf(redisParty["1000"].votes, "b") = 5

\* C20: the code that start-party allocates is one of the 4-digit codes and is
\* the code of no stored session when the new session is stored, also when two
\* start-party handlers run at the same time: storing a new session never
\* replaces the stored snapshot of a live one.
C20_FreshCode ==
  [][\A t \in Tasks :
       StartSaveParty(t) =>
         /\ tasks[t].code \in Codes
         /\ redisParty[tasks[t].code] = NoParty
    ]_vars

\* C21: no odId is the recepteur of two stored sessions, also when two
\* start-party with the same odId run at the same time; a start-party stores
\* a session only for an odId that is neither recepteur nor emetteur of a
\* stored session.
C21_OneSessionPerRecepteur ==
  [][/\ \A c, d \in Codes :
          (c # d /\ redisParty'[c] # NoParty /\ redisParty'[d] # NoParty) =>
            redisParty'[c].recepteurOdId # redisParty'[d].recepteurOdId
     /\ \A t \in Tasks :
          StartSaveParty(t) =>
            \A c \in Codes :
              redisParty[c] # NoParty =>
                /\ redisParty[c].recepteurOdId # tasks[t].odId
                /\ tasks[t].odId \notin DOMAIN redisParty[c].emetteurs
    ]_vars

\* C22: an odId is emetteur of at most one stored session, also when two
\* join-party of the same odId for two sessions run at the same time; a
\* join-party by an odId bound to another stored session ends with one error
\* and changes neither session.
C22_OneSessionPerEmetteur ==
  [][/\ \A c, d \in Codes :
          (c # d /\ redisParty'[c] # NoParty /\ redisParty'[d] # NoParty) =>
            DOMAIN redisParty'[c].emetteurs \cap DOMAIN redisParty'[d].emetteurs = {}
     /\ \A t \in Tasks :
          LET tk == tasks[t]
          IN  (/\ At(t, "join", "getOther") /\ Stepped(t)
               /\ GetParty(tk.branch) # NoParty) =>
                /\ Len(emitted') = 1 /\ emitted'[1].ev = "error"
                /\ emitted'[1].to = tk.socket
                /\ tasks'[t].kind = "idle"
                /\ redisParty' = redisParty /\ redisOd' = redisOd
    ]_vars

\* C23: when the end-party of the recepteur completes (deleteParty has
\* returned and the recepteur has left the maps), the session is absent from
\* the store, the recepteur and the emetteurs of the session have no stored
\* code and no entry in odToSocket or socketToOd, no interval is armed for the
\* code and partyLocks has no entry for it.
C23_EndCleansUp ==
  [][\A t \in Tasks :
       EndPartyDelParty(t) =>
         LET tk == tasks[t]
             members == {tk.party.recepteurOdId} \cup DOMAIN tk.party.emetteurs
         IN  /\ redisParty'[tk.code] = NoParty
             /\ \A o \in members : redisOd'[o] = Null /\ odToSocket'[o] = Null
             /\ \A s \in Sockets : socketToOd'[s] \notin members
             /\ timerIntervals'[tk.code] = NoTimer
             /\ partyLocks'[tk.code] = Absent
    ]_vars

\* C24: end-party is terminal: a handler that was in flight on the session
\* when end-party deleted it (vote, join-party, reconnect-party, disconnect,
\* close-vote, timer tick) never stores the session again, that is, none of
\* them saves a party whose key is absent from the store.
C24_EndIsTerminal ==
  [][\A t \in Tasks :
       (\/ VoteSaveParty(t) \/ JoinSaveParty(t) \/ ReconnectSaveParty(t)
        \/ DisconnectSaveParty(t) \/ CloseVoteSaveParty(t) \/ TimerSaveParty(t)) =>
         redisParty[tasks[t].code] # NoParty
    ]_vars

\* C25: a reconnect-party for a code that has no stored session, or with an
\* odId that is neither the recepteur nor an emetteur of the stored session,
\* sends reconnect-failed to the caller and nothing else: the socket is not
\* registered (odToSocket, socketToOd and the rooms are unchanged) and the
\* store is unchanged.
C25_ReconnectFailed ==
  [][\A t \in Tasks :
       LET tk == tasks[t]
           party == GetParty(tk.code)
           unknown == IF party = NoParty THEN TRUE
                      ELSE /\ party.recepteurOdId # tk.odId
                           /\ tk.odId \notin DOMAIN party.emetteurs
       IN  (At(t, "reconnect", "lockGet") /\ Stepped(t) /\ unknown) =>
             /\ emitted' = <<ToSocket(tk.socket, "reconnect-failed", Null)>>
             /\ tasks'[t].kind = "idle"
             /\ UNCHANGED <<redisParty, redisOd, odToSocket, socketToOd, rooms>>
    ]_vars

\* "c", unknown to the stored session 1000, has just been refused on s3
C25_Witness ==
  /\ redisParty["1000"] # NoParty
  /\ "c" \notin DOMAIN redisParty["1000"].emetteurs
  /\ emitted = <<ToSocket("s3", "reconnect-failed", Null)>>
  /\ socketToOd["s3"] = Null
  /\ redisOd["c"] = Null
  /\ \A t \in Tasks : tasks[t].kind = "idle"

\* C26: right after an open-vote has stored the session, the stored session
\* is in VOTE_OUVERT with no vote and a null moyenne, whatever the votes and
\* the moyenne of the round before, and its historique and emetteurs are those
\* that were stored before.
C26_OpenStartsFromZero ==
  [][\A t \in Tasks :
       LET p == redisParty[tasks[t].code]
           q == redisParty'[tasks[t].code]
       IN  OpenVoteSaveParty(t) =>
             /\ q.etat = "VOTE_OUVERT"
             /\ q.votes = <<>>
             /\ q.moyenne = NoMoyenne
             /\ q.historique = p.historique
             /\ q.emetteurs = p.emetteurs
    ]_vars

\* a second round has just been opened after a round in which "a" voted
C26_Witness ==
  /\ redisParty["1000"] # NoParty
  /\ redisParty["1000"].etat = "VOTE_OUVERT"
  /\ redisParty["1000"].votes = <<>>
  /\ redisParty["1000"].moyenne = NoMoyenne
  /\ Len(redisParty["1000"].historique) = 1
  /\ redisParty["1000"].historique[1].nbVotants = 1
  /\ Len(emitted) = 1 /\ emitted[1].ev = "party-state"
  /\ emitted[1].data.etat = "VOTE_OUVERT"

\* C27: a join-party by an odId that is already an emetteur of the session is
\* accepted in every etat and also when the session has 25 emetteurs: what it
\* stores is the stored session with connecte true for that emetteur, the
\* same emetteurs under the same names and the same votes.
C27_Rejoin ==
  [][\A t \in Tasks :
       LET tk == tasks[t]
           p == GetParty(tk.code)
           q == redisParty'[tk.code]
           known == IF p = NoParty THEN FALSE ELSE tk.odId \in DOMAIN p.emetteurs
       IN  /\ (At(t, "join", "lockGet") /\ Stepped(t) /\ known) =>
                /\ tasks'[t].pc = "saveParty"
                /\ emitted' = <<>>
           /\ (JoinSaveParty(t) /\ known) =>
                /\ DOMAIN q.emetteurs = DOMAIN p.emetteurs
                /\ \A o \in DOMAIN p.emetteurs :
                     /\ q.emetteurs[o].nom = p.emetteurs[o].nom
                     /\ o # tk.odId => q.emetteurs[o] = p.emetteurs[o]
                /\ q.emetteurs[tk.odId].connecte
                /\ q.votes = p.votes
                /\ q.etat = p.etat /\ q.historique = p.historique
    ]_vars

\* "a" has dropped and joined again on s4 while the session was full and its
\* vote closed: it is connected again under its first name
C27_Witness ==
  /\ redisParty["1000"] # NoParty
  /\ Cardinality(DOMAIN redisParty["1000"].emetteurs) = MaxEmetteurs
  /\ redisParty["1000"].etat = "VOTE_FERME"
  /\ closed["s2"]
  /\ redisParty["1000"].emetteurs["a"].connecte
  /\ redisParty["1000"].emetteurs["a"].nom = NomA
  /\ Emits(emitted, ToSocket("s4", "role", "emetteur"))

\* C28: for every code at most one function passed to withPartyLock is between
\* its start and its completion, whatever the handlers and also when the
\* session is deleted meanwhile.
C28_OneHolderPerCode ==
  \A t, u \in Tasks :
    (/\ t # u
     /\ tasks[t].kind # "idle" /\ Acquired(t)
     /\ tasks[u].kind # "idle" /\ Acquired(u)) =>
      tasks[t].code # tasks[u].code

\* C29: every party-state that is emitted is the projection of a session
\* value that was in the store by then.  Either the store holds that value
\* when the message is emitted (the handler has just saved it), or the handler
\* emits, after its setUserParty, the value it remembers; and the value a
\* handler remembers while it waits for setUserParty is the one the store held
\* when it started to wait (it had just saved it or just read it).
C29_BroadcastAfterStore ==
  [][/\ \A i \in DOMAIN emitted' :
          IF emitted'[i].ev # "party-state" THEN TRUE
          ELSE LET m == emitted'[i]
                   c == m.to
               IN  \/ /\ redisParty'[c] # NoParty
                      /\ m.data = GetPartyState(redisParty'[c], now')
                   \/ \E t \in Tasks :
                        /\ tasks[t].pc = "setUserParty" /\ tasks[t].code = c
                        /\ tasks'[t].kind = "idle"
                        /\ m.data = GetPartyState(tasks[t].party, now)
     /\ \A t \in Tasks :
          /\ (tasks'[t].pc = "setUserParty" /\ tasks[t].pc # "setUserParty") =>
               tasks'[t].party = redisParty'[tasks'[t].code]
          /\ (tasks'[t].pc = "setUserParty" /\ tasks[t].pc = "setUserParty") =>
               tasks'[t].party = tasks[t].party
    ]_vars

\* the timer has closed a round and the closed session was broadcast
C29_Witness ==
  /\ redisParty["1000"] # NoParty
  /\ redisParty["1000"].etat = "VOTE_FERME"
  /\ now >= 1000
  /\ timerIntervals["1000"] = NoTimer
  /\ Len(emitted) = 1 /\ emitted[1].ev = "party-state"
  /\ emitted[1].data = GetPartyState(redisParty["1000"], now)

\* C30: when the function run under withPartyLock fails because a store call
\* throws, the lock is released all the same: every handler that waits behind
\* another one for the same code eventually starts its own function.
C30_FailureReleases ==
  \A t \in Tasks :
    (tasks[t].kind # "idle" /\ tasks[t].prev \in Tasks) ~> Acquired(t)

\* a store call has just failed under the lock and the handler that was
\* queued behind it has the lock
C30_Witness ==
  /\ emitted = <<ToSocket("s2", "error", "Erreur serveur")>>
  /\ \E u \in Tasks : tasks[u].kind = "vote" /\ tasks[u].socket = "s3"
                      /\ tasks[u].pc = "lockGet" /\ Acquired(u)



\* t waits, directly or through the handlers queued between them, for u
RECURSIVE WaitsBehind(_, _, _)
WaitsBehind(t, u, n) ==
  /\ n > 0
  /\ tasks[t].prev \in DOMAIN tasks
  /\ \/ tasks[t].prev = u
     \/ WaitsBehind(tasks[t].prev, u, n - 1)

\* C31: the functions passed to withPartyLock for one code start in the order
\* of their calls: while a handler still waits for its turn, the only handlers
\* that run under the lock of that code are the ones it is queued behind, so
\* no handler that called withPartyLock later has started before it.
C31_FirstComeFirstServed ==
  \A t, u \in DOMAIN tasks :
    (/\ t # u
     /\ tasks[t].kind # "idle" /\ tasks[t].prev \in DOMAIN tasks
     /\ tasks[u].kind # "idle" /\ Acquired(u)
     /\ tasks[t].code = tasks[u].code) =>
      WaitsBehind(t, u, Cardinality(DOMAIN tasks))


\* C32: a tick of the timer that runs before the deadline of the round ends
\* at once: it leaves the stored sessions as they are and emits nothing.
C32_EarlyTickIsSilent ==
  [][\A t \in Tasks :
       (/\ At(t, "tick", "lockGet") /\ Stepped(t)
        /\ redisParty[tasks[t].code] # NoParty
        /\ now < redisParty[tasks[t].code].timerEndTime) =>
         /\ tasks'[t].kind = "idle"
         /\ redisParty' = redisParty
         /\ emitted' = <<>>]_vars

\* C33: the timer closes a round only at or after its deadline: a tick that
\* goes on to closeVote reads a clock that is not before timerEndTime.
C33_ClosesAtDeadline ==
  [][\A t \in Tasks :
       (/\ At(t, "tick", "lockGet")
        /\ tasks'[t].kind = "tick" /\ tasks'[t].pc = "saveParty") =>
         now >= redisParty[tasks[t].code].timerEndTime]_vars


\* the session `party` with the valeur of its i-th vote replaced by valeurs[i]
Revalued(party, valeurs) ==
  [party EXCEPT !.votes = [i \in DOMAIN party.votes |->
                             [party.votes[i] EXCEPT !.valeur = valeurs[i]]]]

\* the sessions a handler can broadcast: the stored ones and the ones the
\* handlers in flight hold
Broadcastable ==
  {redisParty[c] : c \in Codes} \cup {tasks[t].party : t \in Tasks}

\* C34: during VOTE_OUVERT the state sent to the room tells who has voted and
\* not what: getPartyState gives the same state for every other choice of the
\* valeurs of the votes cast, and its aVote flags are those of the voters.
C34_StateHidesValeurs ==
  \A party \in Broadcastable :
    (party # NoParty /\ party.etat = "VOTE_OUVERT") =>
      /\ \A valeurs \in [DOMAIN party.votes -> 0 .. 6] :
           GetPartyState(Revalued(party, valeurs), now) = GetPartyState(party, now)
      /\ \A o \in DOMAIN party.emetteurs :
           GetPartyState(party, now).emetteurs[o].aVote = HasVote(party.votes, o)

\* the room is sent the state of a round in which "a" and "b" have cast
\* different valeurs
C34_Witness ==
  /\ redisParty["1000"] # NoParty
  /\ redisParty["1000"].etat = "VOTE_OUVERT"
  /\ HasVote(redisParty["1000"].votes, "a") /\ HasVote(redisParty["1000"].votes, "b")
  /\ VoteOf(redisParty["1000"].votes, "a") # VoteOf(redisParty["1000"].votes, "b")
  /\ \E i \in DOMAIN emitted :
       /\ emitted[i].ev = "party-state"
       /\ emitted[i].data = GetPartyState(redisParty["1000"], now)


\* C35: the code and the recepteurOdId of a stored session never change: no
\* step, a start-party of another odId included, replaces what is stored
\* under a code by a session of another recepteur or of another code.
C35_SameRecepteur ==
  [][\A c \in Codes :
       (redisParty[c] # NoParty /\ redisParty'[c] # NoParty) =>
         /\ redisParty'[c].code = redisParty[c].code
         /\ redisParty'[c].recepteurOdId = redisParty[c].recepteurOdId]_vars


\* no handler and no tick is in flight
Quiet == \A t \in Tasks : tasks[t].kind = "idle"

\* C36: once the handlers have finished, the timerEndTime of a stored session
\* is non-null only in VOTE_OUVERT, and an interval is armed for a code only
\* while its stored session is VOTE_OUVERT with a non-null timerEndTime.
C36_DeadlineOnlyWhileVoting ==
  Quiet =>
    \A c \in Codes :
      /\ (redisParty[c] # NoParty /\ redisParty[c].timerEndTime # 0) =>
           redisParty[c].etat = "VOTE_OUVERT"
      /\ timerIntervals[c] # NoTimer =>
           /\ redisParty[c] # NoParty
           /\ redisParty[c].etat = "VOTE_OUVERT"
           /\ redisParty[c].timerEndTime # 0


\* C37: the disconnect of a socket that an emetteur has left for a newer one
\* does not mark it disconnected: once the handlers have finished, an emetteur
\* whose odId is registered on a socket that is still connected has
\* connecte = true in the stored session.
C37_ConnectedWhileRegistered ==
  Quiet =>
    \A c \in Codes : \A o \in OdIds :
      (/\ redisParty[c] # NoParty
       /\ o \in DOMAIN redisParty[c].emetteurs
       /\ odToSocket[o] # Null
       /\ ~closed[odToSocket[o]]) =>
        redisParty[c].emetteurs[o].connecte


\* C38: the entry that a closeVote appends to historique has as many votes by
\* nom as its nbVotants, and every emetteur who voted in the round is in it
\* under its nom with the valeur it cast.
C38_EntryHasEveryVote ==
  [][\A c \in Codes :
       IF redisParty[c] = NoParty \/ redisParty'[c] = NoParty THEN TRUE
       ELSE Len(redisParty'[c].historique) > Len(redisParty[c].historique) =>
              LET party == redisParty'[c]
                  entry == party.historique[Len(party.historique)]
              IN  /\ Cardinality(DOMAIN entry.votes) = entry.nbVotants
                  /\ \A i \in DOMAIN party.votes :
                       LET nom == party.emetteurs[party.votes[i].odId].nom
                       IN  /\ nom \in DOMAIN entry.votes
                           /\ entry.votes[nom] = party.votes[i].valeur]_vars


\* C39: the recepteurOdId of a stored session is never a key of its emetteurs
\* and never has a vote in it, also after a join-party that carries the odId
\* of the recepteur and the code of its own session.
C39_RecepteurIsNoEmetteur ==
  \A c \in Codes :
    redisParty[c] # NoParty =>
      /\ redisParty[c].recepteurOdId \notin DOMAIN redisParty[c].emetteurs
      /\ ~HasVote(redisParty[c].votes, redisParty[c].recepteurOdId)


\* C40: a party-state goes only to the sockets of the members of the session
\* it is about: every socket it is delivered to is registered for the
\* recepteur or for an emetteur of the session stored under its code, also
\* when that code was the code of a session that has been ended.
C40_OnlyMembersReceive ==
  \A i \in DOMAIN emitted :
    IF emitted[i].ev # "party-state" THEN TRUE
    ELSE IF redisParty[emitted[i].to] = NoParty THEN TRUE
    ELSE \A s \in emitted[i].rcpt :
           \/ socketToOd[s] = redisParty[emitted[i].to].recepteurOdId
           \/ socketToOd[s] \in DOMAIN redisParty[emitted[i].to].emetteurs

==========================================================================
